---- MODULE Spec2Model ----
(***************************************************************************)
(* Tag extraction and field inference of the DocuSeal template manager:    *)
(* the pattern tables, inferFieldType / inferRole, the three tag parsers   *)
(* (extractTags, extractTagsFromPDF, extractTagsFromDOCX), the grid layout *)
(* the POST /api/extract-coordinates handler, the createTemplate call of   *)
(* the DocuSeal client, and the client side: the signing page, the copy    *)
(* buttons of the submissions list and of the share-links page, and the    *)
(* template store.                                                         *)
(*                                                                         *)
(* A JavaScript string is modelled as a sequence of one-character strings, *)
(* so that trim, split, toLowerCase, includes and the tag regular          *)
(* expression are computed character by character.  An optional value      *)
(* (undefined or a value) is a sequence of length 0 or 1.                   *)
(***************************************************************************)
EXTENDS Integers, Sequences, FiniteSets, TLC

VARIABLES
  tagName,       \* the argument of inferFieldType / inferRole
  inferredType,  \* optional: the value inferFieldType returned
  inferredRole,  \* optional: the value inferRole returned
  docText,       \* the text content of the document at hand
  numPages,      \* pdfDocument.numPages of the last PDF load (0: none yet)
  call,          \* the library function that ran on docText ("none" before)
  fields,        \* the field sequence that function returned
  file,          \* optional: the uploaded File (its type and size)
  fault,         \* optional: the message of the error the text extractor throws
  thrown,        \* optional: the error the function threw
  response,      \* optional: the JSON response of POST /api/extract-coordinates
  sent,          \* optional: the request createTemplate posted to the DocuSeal API
  signContent,     \* the signing page (SignContent): its state and messages
  submissionsPage, \* the submissions list (SubmissionsPage): state and callbacks
  shareLinks,      \* the share-links page (ShareLinksContent): state and callbacks
  templateStore    \* the zustand store useTemplateStore

inferVars == <<tagName, inferredType, inferredRole>>
parseVars == <<docText, numPages, call, fields>>
requestVars == <<file, fault, thrown, response, sent>>
pageVars == <<signContent, submissionsPage, shareLinks, templateStore>>
vars == <<inferVars, parseVars, requestVars, pageVars>>

\* no page is open and the store is not in use
PagesClosed ==
  /\ signContent = <<>>
  /\ submissionsPage = <<>>
  /\ shareLinks = <<>>
  /\ templateStore = <<>>

(***************************************************************************)
(* String primitives                                                       *)
(***************************************************************************)
Min(S) == CHOOSE m \in S : \A n \in S : m <= n
Max(S) == CHOOSE m \in S : \A n \in S : m >= n

Uppers == <<"A","B","C","D","E","F","G","H","I","J","K","L","M",
            "N","O","P","Q","R","S","T","U","V","W","X","Y","Z">>
Lowers == <<"a","b","c","d","e","f","g","h","i","j","k","l","m",
            "n","o","p","q","r","s","t","u","v","w","x","y","z">>

\* the letters with a case counterpart, as character maps
LowerOf == [c \in {Uppers[k] : k \in 1..Len(Uppers)} |->
              Lowers[CHOOSE k \in 1..Len(Uppers) : Uppers[k] = c]]
UpperOf == [c \in {Lowers[k] : k \in 1..Len(Lowers)} |->
              Uppers[CHOOSE k \in 1..Len(Lowers) : Lowers[k] = c]]

\* String.prototype.toLowerCase
toLowerCase(s) ==
  [i \in 1..Len(s) |-> IF s[i] \in DOMAIN LowerOf THEN LowerOf[s[i]] ELSE s[i]]

\* String.prototype.toUpperCase
toUpperCase(s) ==
  [i \in 1..Len(s) |-> IF s[i] \in DOMAIN UpperOf THEN UpperOf[s[i]] ELSE s[i]]

\* String.prototype.includes
includes(s, p) ==
  \E i \in 0..(Len(s) - Len(p)) : SubSeq(s, i + 1, i + Len(p)) = p

\* String.prototype.trim
WhiteSpace == {" ", "\t", "\n"}
trim(s) ==
  LET keep == {i \in 1..Len(s) : s[i] \notin WhiteSpace} IN
    IF keep = {} THEN <<>> ELSE SubSeq(s, Min(keep), Max(keep))

\* String.prototype.split with a one-character separator
RECURSIVE split(_, _)
split(s, sep) ==
  LET at == {i \in 1..Len(s) : s[i] = sep} IN
    IF at = {} THEN <<s>>
    ELSE <<SubSeq(s, 1, Min(at) - 1)>>
           \o split(SubSeq(s, Min(at) + 1, Len(s)), sep)

\* Array.prototype.join
RECURSIVE join(_, _)
join(ss, sep) ==
  IF ss = <<>> THEN <<>>
  ELSE IF Len(ss) = 1 THEN ss[1]
  ELSE ss[1] \o sep \o join(Tail(ss), sep)

\* The matches of /\{\{([^}]+)\}\}/g from offset i on, left to right and
\* non-overlapping: m0 is the whole match, m1 the capture group.  An
\* attempt at p succeeds when "{{" is at p, the first "}" after it leaves at
\* least one character for the group and is followed by "}".  Attempts are
\* made from left to right and a match consumes up to its "}}", so of the
\* successful positions that end at the same "}" the leftmost one is the
\* match, and the scan goes on behind it.
tagMatches(text, i) ==
  LET closers == {j \in 1..Len(text) : text[j] = "}"}
      closerOf(p) == Min({j \in closers : j >= p + 2})
      succeeds(p) ==
        /\ text[p] = "{" /\ text[p + 1] = "{"
        /\ \E j \in closers : j >= p + 2
        /\ closerOf(p) > p + 2
        /\ closerOf(p) + 1 <= Len(text)
        /\ text[closerOf(p) + 1] = "}"
      attempts == {p \in i..(Len(text) - 1) : succeeds(p)}
      starts == {p \in attempts :
                   \A q \in attempts : q < p => closerOf(q) # closerOf(p)}
      nth(k) == CHOOSE p \in starts : Cardinality({q \in starts : q <= p}) = k
  IN [k \in 1..Cardinality(starts) |->
        [m0 |-> SubSeq(text, nth(k), closerOf(nth(k)) + 1),
         m1 |-> SubSeq(text, nth(k) + 2, closerOf(nth(k)) - 1)]]

(***************************************************************************)
(* Pattern tables (types/index.ts).  Object.entries walks the string keys  *)
(* of an object literal in insertion order, so each table is a sequence.   *)
(***************************************************************************)
FIELD_TYPE_INFERENCE ==
  <<
    [key |-> <<"s","i","g","n","a","t","u","r","e">>,
     patterns |-> <<<<"_","s","i","g","n","a","t","u","r","e">>,
                   <<"s","i","g","n","a","t","u","r","e">>,
                   <<"_","s","i","g","n">>>>],
    [key |-> <<"i","n","i","t","i","a","l","s">>,
     patterns |-> <<<<"_","i","n","i","t","i","a","l","s">>,
                   <<"i","n","i","t","i","a","l","s">>>>],
    [key |-> <<"d","a","t","e">>,
     patterns |-> <<<<"_","d","a","t","e">>,
                   <<"d","a","t","e">>>>],
    [key |-> <<"i","m","a","g","e">>,
     patterns |-> <<<<"_","i","m","a","g","e">>,
                   <<"i","m","a","g","e">>,
                   <<"p","h","o","t","o">>,
                   <<"a","t","t","a","c","h","m","e","n","t">>,
                   <<"l","o","g","o">>>>],
    [key |-> <<"c","h","e","c","k","b","o","x">>,
     patterns |-> <<<<"c","h","e","c","k","b","o","x">>,
                   <<"c","h","e","c","k","_">>,
                   <<"_","a","g","r","e","e">>,
                   <<"_","c","o","n","f","i","r","m">>>>],
    [key |-> <<"p","h","o","n","e">>,
     patterns |-> <<<<"p","h","o","n","e">>,
                   <<"t","e","l","e","p","h","o","n","e">>,
                   <<"m","o","b","i","l","e">>,
                   <<"c","e","l","l">>>>],
    [key |-> <<"n","u","m","b","e","r">>,
     patterns |-> <<<<"_","a","m","o","u","n","t">>,
                   <<"a","m","o","u","n","t">>,
                   <<"t","o","t","a","l","_">>,
                   <<"p","r","i","c","e">>,
                   <<"c","o","s","t">>,
                   <<"q","t","y">>>>],
    [key |-> <<"t","e","x","t">>,
     patterns |-> <<>>],
    [key |-> <<"f","i","l","e">>,
     patterns |-> <<<<"_","f","i","l","e">>,
                   <<"f","i","l","e">>,
                   <<"a","t","t","a","c","h","m","e","n","t">>>>],
    [key |-> <<"s","e","l","e","c","t">>,
     patterns |-> <<<<"_","s","e","l","e","c","t">>,
                   <<"s","e","l","e","c","t">>,
                   <<"d","r","o","p","d","o","w","n">>>>],
    [key |-> <<"r","a","d","i","o">>,
     patterns |-> <<<<"_","r","a","d","i","o">>,
                   <<"r","a","d","i","o">>,
                   <<"o","p","t","i","o","n">>>>],
    [key |-> <<"s","t","a","m","p">>,
     patterns |-> <<<<"_","s","t","a","m","p">>,
                   <<"s","t","a","m","p">>>>]
  >>
ROLE_INFERENCE ==
  <<
    [key |-> <<"S","e","r","v","i","c","e"," ","P","r","o","v","i","d","e","r">>,
     patterns |-> <<<<"p","r","o","v","i","d","e","r","_">>,
                   <<"p","r","o","v","i","d","e","r">>,
                   <<"v","e","n","d","o","r","_">>,
                   <<"s","e","l","l","e","r","_">>>>],
    [key |-> <<"C","l","i","e","n","t">>,
     patterns |-> <<<<"c","l","i","e","n","t","_">>,
                   <<"c","l","i","e","n","t">>,
                   <<"c","u","s","t","o","m","e","r","_">>,
                   <<"b","u","y","e","r","_">>,
                   <<"t","e","n","a","n","t","_">>>>],
    [key |-> <<"F","i","r","s","t"," ","P","a","r","t","y">>,
     patterns |-> <<>>]
  >>

\* the FieldType literals (types/index.ts) and the role names
STR_text == <<"t","e","x","t">>
STR_signature == <<"s","i","g","n","a","t","u","r","e">>
STR_initials == <<"i","n","i","t","i","a","l","s">>
STR_date == <<"d","a","t","e">>
STR_checkbox == <<"c","h","e","c","k","b","o","x">>
STR_image == <<"i","m","a","g","e">>
STR_file == <<"f","i","l","e">>
STR_phone == <<"p","h","o","n","e">>
STR_number == <<"n","u","m","b","e","r">>
STR_select == <<"s","e","l","e","c","t">>
STR_radio == <<"r","a","d","i","o">>
STR_stamp == <<"s","t","a","m","p">>
STR_ServiceProvider == <<"S","e","r","v","i","c","e"," ","P","r","o","v","i","d","e","r">>
STR_Client == <<"C","l","i","e","n","t">>
STR_FirstParty == <<"F","i","r","s","t"," ","P","a","r","t","y">>
\* the attribute keys and values the tag parser reads
KEY_type == <<"t","y","p","e">>
KEY_role == <<"r","o","l","e">>
KEY_required == <<"r","e","q","u","i","r","e","d">>
KEY_readonly == <<"r","e","a","d","o","n","l","y">>
KEY_default_value == <<"d","e","f","a","u","l","t","_","v","a","l","u","e">>
KEY_placeholder == <<"p","l","a","c","e","h","o","l","d","e","r">>
STR_false == <<"f","a","l","s","e">>
STR_true == <<"t","r","u","e">>

(***************************************************************************)
(* Inference engine (lib/infer-types.ts)                                   *)
(***************************************************************************)
\* the inner loop: does some pattern of the entry occur in lowerName
entryMatches(lowerName, patterns) ==
  \E k \in 1..Len(patterns) : includes(lowerName, toLowerCase(patterns[k]))

\* the outer loop over Object.entries(table) from entry i on: the key of the
\* first entry that matches, or the fallback when the loop runs out
RECURSIVE firstEntry(_, _, _, _)
firstEntry(table, lowerName, i, fallback) ==
  IF i > Len(table) THEN fallback
  ELSE IF entryMatches(lowerName, table[i].patterns) THEN table[i].key
  ELSE firstEntry(table, lowerName, i + 1, fallback)

\* a "last matching entry wins" walk, the slip of iterating the table the
\* wrong way round
RECURSIVE lastEntry(_, _, _, _)
lastEntry(table, lowerName, i, fallback) ==
  IF i < 1 THEN fallback
  ELSE IF entryMatches(lowerName, table[i].patterns) THEN table[i].key
  ELSE lastEntry(table, lowerName, i - 1, fallback)

inferFieldType_lastWins(name) ==
  lastEntry(FIELD_TYPE_INFERENCE, toLowerCase(name),
            Len(FIELD_TYPE_INFERENCE), STR_text)

inferRole_lastWins(name) ==
  lastEntry(ROLE_INFERENCE, toLowerCase(name), Len(ROLE_INFERENCE),
            STR_FirstParty)

\* a role matched only where the lower-cased name begins with a pattern
inferRole_prefixOnly(name) ==
  LET lowerName == toLowerCase(name)
      hits == {i \in 1..Len(ROLE_INFERENCE) :
                 \E k \in 1..Len(ROLE_INFERENCE[i].patterns) :
                    /\ Len(ROLE_INFERENCE[i].patterns[k]) <= Len(lowerName)
                    /\ SubSeq(lowerName, 1, Len(ROLE_INFERENCE[i].patterns[k]))
                         = ROLE_INFERENCE[i].patterns[k]}
  IN IF hits = {} THEN STR_FirstParty ELSE ROLE_INFERENCE[Min(hits)].key

inferFieldType(name) ==
  firstEntry(FIELD_TYPE_INFERENCE, toLowerCase(name), 1, STR_text)

inferRole(name) ==
  firstEntry(ROLE_INFERENCE, toLowerCase(name), 1, STR_FirstParty)

(***************************************************************************)
(* Tag parser (lib/extract-tags.ts, extractTags)                           *)
(***************************************************************************)
\* const [key, value] = parts[i].split('=').map((s) => s.trim()): the first
\* two pieces of the split; value is undefined when the part has no "="
keyValue(part) ==
  LET pieces == split(part, "=") IN
    [key   |-> trim(pieces[1]),
     value |-> IF Len(pieces) >= 2 THEN <<trim(pieces[2])>> ELSE <<>>]

\* for (let i = 1; i < parts.length; i++) { if (key && value) attributes[key] = value }
\* attributes is a function from the keys set so far to their values
RECURSIVE parseAttributes(_, _, _)
parseAttributes(parts, i, attributes) ==
  IF i > Len(parts) THEN attributes
  ELSE LET kv == keyValue(parts[i]) IN
    parseAttributes(parts, i + 1,
      IF kv.key # <<>> /\ kv.value # <<>> /\ kv.value[1] # <<>>
        THEN (kv.key :> kv.value[1]) @@ attributes
        ELSE attributes)

\* attributes.<key>: optional
attr(attributes, key) ==
  IF key \in DOMAIN attributes THEN <<attributes[key]>> ELSE <<>>

\* inference consulted first, the attribute only as its fallback
typeOf_inferenceFirst(attributes, name) ==
  IF inferFieldType(name) # STR_text \/ attr(attributes, KEY_type) = <<>>
    THEN inferFieldType(name)
    ELSE attributes[KEY_type]

\* the role attribute read in place of the type attribute
typeOf_fromRole(attributes, name) ==
  IF attr(attributes, KEY_role) # <<>> /\ attributes[KEY_role] # <<>>
    THEN attributes[KEY_role]
    ELSE inferFieldType(name)

\* (attributes.type as FieldType) || inferFieldType(tagName)
typeOf(attributes, name) ==
  IF attr(attributes, KEY_type) # <<>> /\ attributes[KEY_type] # <<>>
    THEN attributes[KEY_type]
    ELSE inferFieldType(name)

\* attributes.role || inferRole(tagName)
roleOf(attributes, name) ==
  IF attr(attributes, KEY_role) # <<>> /\ attributes[KEY_role] # <<>>
    THEN attributes[KEY_role]
    ELSE inferRole(name)

\* required only when the attribute says "true"
requiredOf_onlyTrue(attributes) == attr(attributes, KEY_required) = <<STR_true>>

\* attributes.required !== 'false'
requiredOf(attributes) == attr(attributes, KEY_required) # <<STR_false>>

\* attributes.readonly === 'true'
readonlyOf(attributes) == attr(attributes, KEY_readonly) = <<STR_true>>

\* word.charAt(0).toUpperCase() + word.slice(1).toLowerCase()
capitalize(word) ==
  IF word = <<>> THEN <<>>
  ELSE toUpperCase(SubSeq(word, 1, 1)) \o toLowerCase(SubSeq(word, 2, Len(word)))

\* tagName.split('_').map(...).join(' ')
displayNameOf(name) ==
  LET words == split(name, "_") IN
    join([k \in 1..Len(words) |-> capitalize(words[k])], <<" ">>)

\* the object literal of one field; id stands for the uuidv4() value
fieldObject(id, originalTag, name, attributes, areas) ==
  [id           |-> id,
   originalTag  |-> originalTag,
   name         |-> name,
   displayName  |-> displayNameOf(name),
   type         |-> typeOf(attributes, name),
   role         |-> roleOf(attributes, name),
   required     |-> requiredOf(attributes),
   readonly     |-> readonlyOf(attributes),
   defaultValue |-> attr(attributes, KEY_default_value),
   placeholder  |-> attr(attributes, KEY_placeholder),
   areas        |-> areas]

\* match[1].trim().split(';')
partsOf(match) == split(trim(match.m1), ";")

\* the loop without its has() check: Map.set on a name already present
\* keeps the entry's place and replaces its value, so the last occurrence wins
RECURSIVE extractTagsLoop_overwrite(_, _, _)
extractTagsLoop_overwrite(matches, i, uniqueTags) ==
  IF i > Len(matches) THEN uniqueTags
  ELSE LET parts == partsOf(matches[i])
           name  == trim(parts[1])
           seen  == {k \in 1..Len(uniqueTags) : uniqueTags[k].name = name}
           field == fieldObject(Len(uniqueTags) + 1,
                                <<"{", "{">> \o matches[i].m1 \o <<"}", "}">>,
                                name, parseAttributes(parts, 2, <<>>), <<>>)
       IN extractTagsLoop_overwrite(matches, i + 1,
            IF seen = {} THEN Append(uniqueTags, field)
            ELSE [uniqueTags EXCEPT ![Min(seen)] = field])

\* the loop with the Map keyed by the whole trimmed tag instead of its name
RECURSIVE extractTagsLoop_byFullTag(_, _, _)
extractTagsLoop_byFullTag(matches, i, uniqueTags) ==
  IF i > Len(matches) THEN uniqueTags
  ELSE LET parts == partsOf(matches[i])
           name  == trim(parts[1])
           tag   == <<"{", "{">> \o matches[i].m1 \o <<"}", "}">>
       IN IF \E k \in 1..Len(uniqueTags) :
               trim(uniqueTags[k].originalTag) = trim(tag)
            THEN extractTagsLoop_byFullTag(matches, i + 1, uniqueTags)
            ELSE extractTagsLoop_byFullTag(matches, i + 1,
                   Append(uniqueTags,
                     fieldObject(Len(uniqueTags) + 1, tag, name,
                                 parseAttributes(parts, 2, <<>>), <<>>)))

\* the loop storing the trimmed tag as originalTag
RECURSIVE extractTagsLoop_trimmedTag(_, _, _)
extractTagsLoop_trimmedTag(matches, i, uniqueTags) ==
  IF i > Len(matches) THEN uniqueTags
  ELSE LET parts == partsOf(matches[i])
           name  == trim(parts[1])
       IN IF \E k \in 1..Len(uniqueTags) : uniqueTags[k].name = name
            THEN extractTagsLoop_trimmedTag(matches, i + 1, uniqueTags)
            ELSE extractTagsLoop_trimmedTag(matches, i + 1,
                   Append(uniqueTags,
                     fieldObject(Len(uniqueTags) + 1,
                                 <<"{", "{">> \o trim(matches[i].m1)
                                   \o <<"}", "}">>,
                                 name, parseAttributes(parts, 2, <<>>), <<>>)))

\* matches.forEach: uniqueTags is the Map, kept as the sequence of its
\* values in insertion order; the k-th field created gets the k-th uuid
RECURSIVE extractTagsLoop(_, _, _)
extractTagsLoop(matches, i, uniqueTags) ==
  IF i > Len(matches) THEN uniqueTags
  ELSE LET parts == partsOf(matches[i])
           name  == trim(parts[1])
       IN IF \E k \in 1..Len(uniqueTags) : uniqueTags[k].name = name
            THEN extractTagsLoop(matches, i + 1, uniqueTags)
            ELSE extractTagsLoop(matches, i + 1,
                   Append(uniqueTags,
                     fieldObject(Len(uniqueTags) + 1,
                                 <<"{", "{">> \o matches[i].m1 \o <<"}", "}">>,
                                 name, parseAttributes(parts, 2, <<>>), <<>>)))

extractTags(text) ==
  LET matches == tagMatches(text, 1) IN
    IF Len(matches) = 0 THEN <<>> ELSE extractTagsLoop(matches, 1, <<>>)

(***************************************************************************)
(* Grid layout and the two document parsers (extractTagsFromPDF,           *)
(* extractTagsFromDOCX).  Coordinates are fractions of the page, held as   *)
(* the IEEE-754 doubles JavaScript computes; the decimal literals of the   *)
(* source are written in thousandths.                                      *)
(***************************************************************************)
topMargin == 50          \* let currentY = 0.05
leftColumnX == 100       \* 0.1
rightColumnX == 550      \* 0.55
fieldHeight == 40        \* 0.04
fieldWidth == 350        \* 0.35
verticalGap == 15        \* 0.015
pageHeight == 950        \* 0.95
signatureHeight == 80    \* 0.08
checkboxSize == 30       \* 0.03
imageHeight == 120       \* 0.12

\* JavaScript numbers are IEEE-754 doubles.  A double near a decimal with
\* three places is held exactly as [m, e]: its value is
\* m / 1000 + e / (1000 * 2^60).  Every double between 2^-8 and 2 is a
\* multiple of 2^-60, so e is an integer, and it stays small.
\* 2^n for n in 0..12
Pow2(n) == <<1, 2, 4, 8, 16, 32, 64, 128, 256, 512, 1024, 2048, 4096>>[n + 1]

\* 2^n mod 125 for n in 0..59, from 2^10 = 1024 = 24 (mod 125) and the
\* powers 24^0 .. 24^5 mod 125
Pow2Mod125(n) == (<<1, 24, 76, 74, 26, 124>>[(n \div 10) + 1] * Pow2(n % 10)) % 125

\* m / 1000 + e / (1000 * 2^60) >= 2^-t
atLeastPow2(m, e, t) ==
  \/ 128 * m * Pow2(t) > 128000
  \/ 128 * m * Pow2(t) = 128000 /\ e >= 0

\* the binade [2^-t, 2^(1-t)) of a value below 2: there a double is a
\* multiple of 2^-(52+t)
binade(m, e) == Min({t \in 0..8 : atLeastPow2(m, e, t)})

\* round-to-nearest, ties-to-even, of the exact value [m, e] to a double:
\* N = m * 2^60 + e is rounded to a multiple of D = 1000 * 2^(8-t)
roundToDouble[m \in Int, e \in Int] ==
  LET t    == binade(m, e)
      D    == 1000 * Pow2(8 - t)
      r    == (Pow2(11 - t) * ((m * Pow2Mod125(49 + t)) % 125) + e) % D
      r2   == (Pow2(12 - t) * ((m * Pow2Mod125(48 + t)) % 125) + e) % (2 * D)
      up   == 2 * r > D \/ (2 * r = D /\ r2 >= D)
  IN [m |-> m, e |-> IF up THEN e - r + D ELSE e - r]

\* a decimal literal of the source, in thousandths
double(m) == roundToDouble[m, 0]

\* the doubles, and a + b and a > b on them
Double == [m : Int, e : Int]
plus[a \in Double, b \in Double] == roundToDouble[a.m + b.m, a.e + b.e]
greater[a \in Double, b \in Double] == a.m > b.m \/ (a.m = b.m /\ a.e > b.e)

\* the heights with initials left at the default
heightOf_initialsDefault(type) ==
  IF type = STR_signature THEN double(signatureHeight)
  ELSE IF type = STR_checkbox THEN double(checkboxSize)
  ELSE IF type = STR_image THEN double(imageHeight)
  ELSE double(fieldHeight)

\* "Adjust dimensions based on field type"
heightOf(type) ==
  IF type = STR_signature \/ type = STR_initials THEN double(signatureHeight)
  ELSE IF type = STR_checkbox THEN double(checkboxSize)
  ELSE IF type = STR_image THEN double(imageHeight)
  ELSE double(fieldHeight)

widthOf(type) ==
  IF type = STR_checkbox THEN double(checkboxSize) ELSE double(fieldWidth)

\* the cursor before the first field
gridStart ==
  [currentPage |-> 1, currentY |-> double(topMargin), fieldIndex |-> 0]

\* the row advance placed after the field is pushed, as a grid that
\* completes a left+right pair before moving down would have it
gridStep_advanceAfterRight(cursor, type) ==
  LET height        == heightOf(type)
      useLeftColumn == cursor.fieldIndex % 2 = 0
      newPage       == greater[plus[cursor.currentY, height],
                               double(pageHeight)]
      page          == IF newPage THEN cursor.currentPage + 1
                                  ELSE cursor.currentPage
      y             == IF newPage THEN double(topMargin) ELSE cursor.currentY
  IN [cursor |-> [currentPage |-> page,
                  currentY |-> IF useLeftColumn THEN y
                               ELSE plus[y, plus[height, double(verticalGap)]],
                  fieldIndex |-> cursor.fieldIndex + 1],
      box    |-> [x |-> IF useLeftColumn THEN double(leftColumnX)
                                         ELSE double(rightColumnX),
                  y |-> y, w |-> widthOf(type), h |-> height, page |-> page]]

\* the page overflow test left out
gridStep_noOverflow(cursor, type) ==
  LET height        == heightOf(type)
      useLeftColumn == cursor.fieldIndex % 2 = 0
      advancedY     == IF ~useLeftColumn /\ cursor.fieldIndex > 0
                         THEN plus[cursor.currentY,
                                   plus[height, double(verticalGap)]]
                         ELSE cursor.currentY
  IN [cursor |-> [currentPage |-> cursor.currentPage, currentY |-> advancedY,
                  fieldIndex |-> cursor.fieldIndex + 1],
      box    |-> [x |-> IF useLeftColumn THEN double(leftColumnX)
                                         ELSE double(rightColumnX),
                  y |-> advancedY, w |-> widthOf(type), h |-> height,
                  page |-> cursor.currentPage]]

\* if (!useLeftColumn && fieldIndex > 0) currentY += height + verticalGap:
\* the row advance, made before a right-column field is placed
advance(cursor, height) ==
  IF cursor.fieldIndex % 2 # 0 /\ cursor.fieldIndex > 0
    THEN plus[cursor.currentY, plus[height, double(verticalGap)]]
    ELSE cursor.currentY

\* the overflow test made on the top of the box instead of its bottom
overflows_ignoringHeight(currentY, height) ==
  greater[currentY, double(pageHeight)]

\* if (currentY + height > pageHeight)
overflows(currentY, height) ==
  greater[plus[currentY, height], double(pageHeight)]

\* a placement that turns the page without returning to the top margin
place_pageWithoutReset(cursor, type, currentY, newPage) ==
  [cursor |-> [currentPage |-> IF newPage THEN cursor.currentPage + 1
                                          ELSE cursor.currentPage,
               currentY    |-> currentY,
               fieldIndex  |-> cursor.fieldIndex + 1],
   box    |-> [x    |-> IF cursor.fieldIndex % 2 = 0 THEN double(leftColumnX)
                                                     ELSE double(rightColumnX),
               y    |-> currentY,
               w    |-> widthOf(type),
               h    |-> heightOf(type),
               page |-> IF newPage THEN cursor.currentPage + 1
                                   ELSE cursor.currentPage]]

\* the placement with the column restarted on a new page: the first field
\* of every page goes to the left column
place_leftOnNewPage(cursor, type, currentY, newPage) ==
  [cursor |-> [currentPage |-> IF newPage THEN cursor.currentPage + 1
                                          ELSE cursor.currentPage,
               currentY    |-> IF newPage THEN double(topMargin) ELSE currentY,
               fieldIndex  |-> cursor.fieldIndex + 1],
   box    |-> [x    |-> IF newPage \/ cursor.fieldIndex % 2 = 0
                          THEN double(leftColumnX) ELSE double(rightColumnX),
               y    |-> IF newPage THEN double(topMargin) ELSE currentY,
               w    |-> widthOf(type),
               h    |-> heightOf(type),
               page |-> IF newPage THEN cursor.currentPage + 1
                                   ELSE cursor.currentPage]]

\* the cursor after the overflow test and fieldIndex++, and the area
\* written from it; currentY is the cursor's y after the row advance
place(cursor, type, currentY, newPage) ==
  [cursor |-> [currentPage |-> IF newPage THEN cursor.currentPage + 1
                                          ELSE cursor.currentPage,
               currentY    |-> IF newPage THEN double(topMargin) ELSE currentY,
               fieldIndex  |-> cursor.fieldIndex + 1],
   box    |-> [x    |-> IF cursor.fieldIndex % 2 = 0 THEN double(leftColumnX)
                                                     ELSE double(rightColumnX),
               y    |-> IF newPage THEN double(topMargin) ELSE currentY,
               w    |-> widthOf(type),
               h    |-> heightOf(type),
               page |-> IF newPage THEN cursor.currentPage + 1
                                   ELSE cursor.currentPage]]

\* the overflow test on the advanced cursor, then the placement
placeFrom(cursor, type, currentY) ==
  place(cursor, type, currentY, overflows(currentY, heightOf(type)))

\* One pass of the loop body over the cursor: the column, the row advance
\* (made before a right-column field is placed), the page overflow, then
\* fieldIndex++.  box.page is currentPage as the loop holds it, unclamped.
gridStep(cursor, type) ==
  placeFrom(cursor, type, advance(cursor, heightOf(type)))

\* The state of the while loops of extractTagsFromPDF and
\* extractTagsFromDOCX: the fields array, the processedTags Set and the
\* grid cursor.
loopStart == [out |-> <<>>, processedTags |-> {}, cursor |-> gridStart]

\* the loop body with a repeated name replacing the earlier field instead
\* of being skipped
pdfBody_lastOccurrenceWins(match, s, pageCount) ==
  LET parts      == partsOf(match)
      name       == trim(parts[1])
      attributes == parseAttributes(parts, 2, <<>>)
      kept       == SelectSeq(s.out, LAMBDA f : f.name # name)
      step       == gridStep(s.cursor, typeOf(attributes, name))
      area       == [step.box EXCEPT
                       !.page = IF step.box.page < pageCount
                                  THEN step.box.page ELSE pageCount]
  IN [out |-> Append(kept, fieldObject(Len(kept) + 1, match.m0, name,
                                       attributes, <<area>>)),
      processedTags |-> s.processedTags \cup {name},
      cursor |-> step.cursor]

\* const tagName = parts[0].trim()
tagNameOf(match) == trim(partsOf(match)[1])

\* the attributes object filled from parts[1..] of one match
attributesOf(match) == parseAttributes(partsOf(match), 2, <<>>)

\* the push with the column chosen by the role: a Client field always
\* goes to the right column
pushField_roleColumn(match, s, name, attributes, step, page) ==
  [out           |-> Append(s.out,
                       fieldObject(Len(s.out) + 1, match.m0, name,
                                   attributes,
                                   <<[step.box EXCEPT
                                        !.page = page,
                                        !.x = IF roleOf(attributes, name) = STR_Client
                                                THEN double(rightColumnX)
                                                ELSE step.box.x]>>)),
   processedTags |-> s.processedTags \cup {name},
   cursor        |-> step.cursor]

\* fields.push({ ..., areas: [{ x, y, w, h, page }] }) with the k-th uuid,
\* processedTags.add(name), and the cursor as the grid left it
pushField(match, s, name, attributes, step, page) ==
  [out           |-> Append(s.out,
                       fieldObject(Len(s.out) + 1, match.m0, name,
                                   attributes,
                                   <<[step.box EXCEPT !.page = page]>>)),
   processedTags |-> s.processedTags \cup {name},
   cursor        |-> step.cursor]

\* page: currentPage, as extractTagsFromDOCX writes it
docxPush(match, s, name, attributes, step) ==
  pushField(match, s, name, attributes, step, step.box.page)

\* the statements of the body of extractTagsFromDOCX for a name not seen
\* before: the type, the grid, the push
docxField(match, s, name, attributes) ==
  docxPush(match, s, name, attributes,
           gridStep(s.cursor, typeOf(attributes, name)))

\* the body of the while loop of extractTagsFromDOCX for one match
docxBody(match, s) ==
  IF tagNameOf(match) \in s.processedTags THEN s
  ELSE docxField(match, s, tagNameOf(match), attributesOf(match))

\* the loop body without Math.min(currentPage, pageCount)
pdfBody_noClamp(match, s, pageCount) == docxBody(match, s)

\* page: Math.min(currentPage, pageCount), as extractTagsFromPDF writes it
pdfPush(match, s, pageCount, name, attributes, step) ==
  pushField(match, s, name, attributes, step,
            IF step.box.page < pageCount THEN step.box.page ELSE pageCount)

\* the loop body with a repeated name moving the grid on by one slot
pdfBody_repeatTakesSlot(match, s, pageCount) ==
  IF tagNameOf(match) \in s.processedTags
    THEN [s EXCEPT !.cursor = gridStep(s.cursor, STR_text).cursor]
  ELSE pushField(match, s, tagNameOf(match), attributesOf(match),
                 gridStep(s.cursor,
                          typeOf(attributesOf(match), tagNameOf(match))),
                 Min({gridStep(s.cursor,
                               typeOf(attributesOf(match),
                                      tagNameOf(match))).box.page,
                      pageCount}))

\* the statements of the body of extractTagsFromPDF for a name not seen
\* before: the type, the grid, the push
pdfField(match, s, pageCount, name, attributes) ==
  pdfPush(match, s, pageCount, name, attributes,
          gridStep(s.cursor, typeOf(attributes, name)))

\* the body of while ((match = tagRegex.exec(text)) !== null) in
\* extractTagsFromPDF, for one match
pdfBody(match, s, pageCount) ==
  IF tagNameOf(match) \in s.processedTags THEN s
  ELSE pdfField(match, s, pageCount, tagNameOf(match), attributesOf(match))

\* the while loop of extractTagsFromPDF over matches[lo..hi], from state s.
\* The matches are taken in order: the state after matches[lo..mid] is
\* computed first and the rest of the range starts from it.  The range is
\* halved only to keep the evaluation of long documents shallow.
RECURSIVE pdfLoop(_, _, _, _, _)
pdfLoop(matches, lo, hi, s, pageCount) ==
  IF lo > hi THEN s
  ELSE IF lo = hi THEN pdfBody(matches[lo], s, pageCount)
  ELSE LET mid == (lo + hi) \div 2 IN
         CHOOSE end \in {pdfLoop(matches, mid + 1, hi, half, pageCount) :
                           half \in {pdfLoop(matches, lo, mid, s, pageCount)}} :
           TRUE

\* the text pdf.js yields for a document whose content is on its first
\* page: each page's text followed by "\n"
pdfText(content, pageCount) == content \o [k \in 1..pageCount |-> "\n"]

\* extractTagsFromPDF(buffer), after a successful load
extractTagsFromPDF(content, pageCount) ==
  LET text    == pdfText(content, pageCount)
      matches == tagMatches(text, 1)
  IN [fields        |-> pdfLoop(matches, 1, Len(matches), loopStart,
                                pageCount).out,
      pageCount     |-> pageCount,
      extractedText |-> text]

\* the while loop of extractTagsFromDOCX over matches[lo..hi], from state s
RECURSIVE docxLoop(_, _, _, _)
docxLoop(matches, lo, hi, s) ==
  IF lo > hi THEN s
  ELSE IF lo = hi THEN docxBody(matches[lo], s)
  ELSE LET mid == (lo + hi) \div 2 IN
         CHOOSE end \in {docxLoop(matches, mid + 1, hi, half) :
                           half \in {docxLoop(matches, lo, mid, s)}} : TRUE

\* extractTagsFromDOCX(buffer), after mammoth returned the raw text
extractTagsFromDOCX(content) ==
  LET matches == tagMatches(content, 1) IN
    [fields        |-> docxLoop(matches, 1, Len(matches), loopStart).out,
     extractedText |-> content]

(***************************************************************************)
(* Inputs of the inference specification: names glued from tokens          *)
(***************************************************************************)
MaxNameTokens == 2

NameTokens ==
  {<<"d","a","t","e">>,
   <<"S","i","g","n","a","t","u","r","e">>,
   <<"_","s","i","g","n">>,
   <<"a","t","t","a","c","h","m","e","n","t">>,
   <<"f","i","l","e">>,
   <<"c","e","l","l">>,
   <<"p","r","o","v","i","d","e","r">>,
   <<"C","L","I","E","N","T">>,
   <<"v","e","n","d","o","r">>,
   <<"s","e","l","l","e","r","_">>,
   <<"c","u","s","t","o","m","e","r","_">>,
   <<"b","u","y","e","r","_">>,
   <<"t","e","n","a","n","t","_">>,
   <<"_">>,
   <<"x">>}

RECURSIVE concat(_)
concat(ss) == IF ss = <<>> THEN <<>> ELSE Head(ss) \o concat(Tail(ss))

SeqsUpTo(S, n) == UNION {[1..k -> S] : k \in 0..n}

TagNames == {concat(ts) : ts \in SeqsUpTo(NameTokens, MaxNameTokens)}

InitInfer ==
  /\ tagName \in TagNames
  /\ inferredType = <<>>
  /\ inferredRole = <<>>
  /\ docText = <<>>
  /\ numPages = 0
  /\ call = "none"
  /\ fields = <<>>
  /\ file = <<>>
  /\ fault = <<>>
  /\ thrown = <<>>
  /\ response = <<>>
  /\ sent = <<>>
  /\ PagesClosed

InferFieldType ==
  /\ inferredType = <<>>
  /\ inferredType' = <<inferFieldType(tagName)>>
  /\ UNCHANGED <<tagName, inferredRole, parseVars, requestVars, pageVars>>

InferRole ==
  /\ inferredRole = <<>>
  /\ inferredRole' = <<inferRole(tagName)>>
  /\ UNCHANGED <<tagName, inferredType, parseVars, requestVars, pageVars>>

NextInfer == InferFieldType \/ InferRole

SpecInfer == InitInfer /\ [][NextInfer]_vars

(***************************************************************************)
(* The parser specification: one library function runs on a document text  *)
(***************************************************************************)
MaxPieces == 3   \* pieces glued into a document text
MaxParts == 2    \* attribute parts of a single-tag text
MaxPages == 2    \* pages of a PDF

\* whole tags, filler and stray delimiters:
\*   {{x}}
\*   {{x;type=date}}
\*   {{ x ;role=Client}}
\*   {{y_sign}}
\*   Hello 
\*   {{
\*   }}
DocPieces ==
  {<<"{","{","x","}","}">>,
   <<"{","{","x",";","t","y","p","e","=","d","a","t","e","}","}">>,
   <<"{","{"," ","x"," ",";","r","o","l","e","=","C","l","i","e","n","t","}","}">>,
   <<"{","{","y","_","s","i","g","n","}","}">>,
   <<"H","e","l","l","o"," ">>,
   <<"{","{">>,
   <<"}","}">>}

\* the name and the attribute parts of the single-tag texts:
\*   client_sign
AttrNames ==
  {<<"c","l","i","e","n","t","_","s","i","g","n">>}
\*   type=number
\*   type=custom
\*   role=Buyer
\*   required=false
\*   required=no
\*   readonly=true
\*    default_value = 100 
\*   default_value=a=b
\*   placeholder=hi
\*   novalue
\*   color=red
\*   type=
\*   =x
AttrParts ==
  {<<"t","y","p","e","=","n","u","m","b","e","r">>,
   <<"t","y","p","e","=","c","u","s","t","o","m">>,
   <<"r","o","l","e","=","B","u","y","e","r">>,
   <<"r","e","q","u","i","r","e","d","=","f","a","l","s","e">>,
   <<"r","e","q","u","i","r","e","d","=","n","o">>,
   <<"r","e","a","d","o","n","l","y","=","t","r","u","e">>,
   <<" ","d","e","f","a","u","l","t","_","v","a","l","u","e"," ","="," ","1","0","0"," ">>,
   <<"d","e","f","a","u","l","t","_","v","a","l","u","e","=","a","=","b">>,
   <<"p","l","a","c","e","h","o","l","d","e","r","=","h","i">>,
   <<"n","o","v","a","l","u","e">>,
   <<"c","o","l","o","r","=","r","e","d">>,
   <<"t","y","p","e","=">>,
   <<"=","x">>}

DocTexts == {concat(ps) : ps \in SeqsUpTo(DocPieces, MaxPieces)}

\* "{{" name ";" part ";" part ... "}}"
tagText(name, parts) ==
  <<"{", "{">> \o name
     \o concat([k \in 1..Len(parts) |-> <<";">> \o parts[k]])
     \o <<"}", "}">>

AttrTexts ==
  {tagText(n, ps) : n \in AttrNames, ps \in SeqsUpTo(AttrParts, MaxParts)}

Texts == DocTexts \cup AttrTexts

InitParse ==
  /\ docText \in Texts
  /\ numPages = 0
  /\ call = "none"
  /\ fields = <<>>
  /\ tagName = <<>>
  /\ inferredType = <<>>
  /\ inferredRole = <<>>
  /\ file = <<>>
  /\ fault = <<>>
  /\ thrown = <<>>
  /\ response = <<>>
  /\ sent = <<>>
  /\ PagesClosed

ExtractTags ==
  /\ call = "none"
  /\ call' = "extractTags"
  /\ fields' = extractTags(docText)
  /\ UNCHANGED <<docText, numPages, inferVars, requestVars, pageVars>>

ExtractTagsFromPDF ==
  /\ call = "none"
  /\ \E n \in 1..MaxPages :
       /\ numPages' = n
       /\ fields' = extractTagsFromPDF(docText, n).fields
  /\ call' = "extractTagsFromPDF"
  /\ UNCHANGED <<docText, inferVars, requestVars, pageVars>>

ExtractTagsFromDOCX ==
  /\ call = "none"
  /\ call' = "extractTagsFromDOCX"
  /\ fields' = extractTagsFromDOCX(docText).fields
  /\ UNCHANGED <<docText, numPages, inferVars, requestVars, pageVars>>

NextParse == ExtractTags \/ ExtractTagsFromPDF \/ ExtractTagsFromDOCX

SpecParse == InitParse /\ [][NextParse]_vars

(***************************************************************************)
(* The document pipeline: POST /api/extract-coordinates                    *)
(* (app/api/extract-coordinates/route.ts) and processPdfFile               *)
(* (lib/extract-tags.ts)                                                   *)
(***************************************************************************)
MIME_PDF == "application/pdf"
MIME_DOCX ==
  "application/vnd.openxmlformats-officedocument.wordprocessingml.document"
MIME_DOC == "application/msword"
MIME_PNG == "image/png"

allowedTypes == {MIME_PDF, MIME_DOCX, MIME_DOC}
maxFileSize == 10 * 1024 * 1024
fieldsPerPage == 25      \* Math.ceil(fields.length / 25) || 1
previewLength == 200     \* extractedText?.substring(0, 200)

NO_TAGS_MESSAGE ==
  "No {{tags}} found in document. Add placeholders like {{signature}} to your document."

\* String.prototype.substring(0, n)
substring0(s, n) == SubSeq(s, 1, IF Len(s) < n THEN Len(s) ELSE n)

\* NextResponse.json({ success: false, error }, { status })
failure(status, error) ==
  [status |-> status, success |-> FALSE, error |-> <<error>>,
   fields |-> <<>>, pageCount |-> <<>>, fileType |-> <<>>,
   pdfPreviewMime |-> <<>>, debug |-> <<>>]

\* the response of the fields.length === 0 branch
noTagsResponse(extractedText) ==
  [failure(400, NO_TAGS_MESSAGE) EXCEPT
     !.debug = <<[textLength  |-> Len(extractedText),
                  textPreview |-> substring0(extractedText, previewLength),
                  hasText     |-> Len(extractedText) > 0]>>]

\* the response: ExtractCoordinatesResponse with success: true
successResponse(fs, pageCount, isPDF) ==
  [status |-> 200, success |-> TRUE, error |-> <<>>,
   fields |-> <<fs>>, pageCount |-> <<pageCount>>,
   fileType |-> <<IF isPDF THEN "pdf" ELSE "docx">>,
   pdfPreviewMime |-> <<IF isPDF THEN MIME_PDF ELSE MIME_DOCX>>,
   debug |-> <<>>]

\* the handler with the fields.length === 0 branch left out
afterExtraction_noEmptyCheck(fs, pageCount, extractedText, isPDF) ==
  successResponse(fs, pageCount, isPDF)

\* the handler from "if (fields.length === 0)" on
afterExtraction(fs, pageCount, extractedText, isPDF) ==
  IF Len(fs) = 0 THEN noTagsResponse(extractedText)
  ELSE successResponse(fs, pageCount, isPDF)

\* the catch block: error.message || 'Failed to process document'
caught(message) ==
  failure(500, IF message = "" THEN "Failed to process document" ELSE message)

\* POST(request): f is formData.get('file'), content and pageCount what the
\* text extractor finds in the file, err the error it throws, if any
POST(f, content, pageCount, err) ==
  IF f = <<>> THEN failure(400, "No file provided")
  ELSE IF f[1].type \notin allowedTypes
    THEN failure(400, "Invalid file type. Please upload a PDF or DOCX file.")
  ELSE IF f[1].size > maxFileSize
    THEN failure(400, "File size must be less than 10MB")
  ELSE
    LET isPDF  == f[1].type = MIME_PDF
        isDOCX == f[1].type = MIME_DOCX \/ f[1].type = MIME_DOC
    IN IF isPDF
         THEN IF err # <<>> THEN caught(err[1])
              ELSE LET result == extractTagsFromPDF(content, pageCount) IN
                     afterExtraction(result.fields, result.pageCount,
                                     result.extractedText, isPDF)
       ELSE IF isDOCX
         THEN IF err # <<>> THEN caught(err[1])
              ELSE LET result == extractTagsFromDOCX(content)
                       n == Len(result.fields)
                       estimate == (n + fieldsPerPage - 1) \div fieldsPerPage
                   IN afterExtraction(result.fields,
                                      IF estimate = 0 THEN 1 ELSE estimate,
                                      result.extractedText, isPDF)
       ELSE failure(400, "Unsupported file type")

\* processPdfFile(file): what it throws, or the fields it returns
processPdfFile(f, content, pageCount, err) ==
  IF f.type # MIME_PDF
    THEN [thrown |-> <<"INVALID_FILE_TYPE">>, fields |-> <<>>]
  ELSE IF ~(f.size <= maxFileSize)
    THEN [thrown |-> <<"FILE_TOO_LARGE">>, fields |-> <<>>]
  ELSE IF err # <<>> THEN [thrown |-> err, fields |-> <<>>]
  ELSE LET fs == extractTags(pdfText(content, pageCount)) IN
    IF Len(fs) = 0 THEN [thrown |-> <<"NO_TAGS_FOUND">>, fields |-> <<>>]
    ELSE [thrown |-> <<>>, fields |-> fs]

(***************************************************************************)
(* The pipeline specification: one upload, handled once                    *)
(***************************************************************************)
MaxUploadPieces == 3   \* pieces glued into an uploaded document's text

\* document pieces of the uploads:
\*   "{{x}}", "{{x;type=date}}", "{{y_sign}}", "Hello "
UploadPieces ==
  {<<"{","{","x","}","}">>,
   <<"{","{","x",";","t","y","p","e","=","d","a","t","e","}","}">>,
   <<"{","{","y","_","s","i","g","n","}","}">>,
   <<"H","e","l","l","o"," ">>}

\* a text without tags that is longer than the debug preview
LongText == [k \in 1..(previewLength + 1) |-> "a"]

UploadTexts ==
  {concat(ps) : ps \in SeqsUpTo(UploadPieces, MaxUploadPieces)} \cup {LongText}

\* the uploads: no file at all, or a file of some type and size
Files ==
  {<<>>}
    \cup {<<[type |-> t, size |-> z]>> :
            t \in {MIME_PDF, MIME_DOCX, MIME_DOC, MIME_PNG},
            z \in {1024, maxFileSize, maxFileSize + 1}}

\* the errors a text extractor throws: none, one with a message, one without
Faults == {<<>>, <<"Invalid PDF structure">>, <<"">>}

Init ==
  /\ file \in Files
  /\ docText \in UploadTexts
  /\ numPages \in IF file # <<>> /\ file[1].type = MIME_PDF
                    THEN 1..MaxPages ELSE {0}
  /\ fault \in Faults
  /\ call = "none"
  /\ fields = <<>>
  /\ thrown = <<>>
  /\ response = <<>>
  /\ sent = <<>>
  /\ tagName = <<>>
  /\ inferredType = <<>>
  /\ inferredRole = <<>>
  /\ PagesClosed

Post ==
  /\ call = "none"
  /\ call' = "POST"
  /\ response' = <<POST(file, docText, numPages, fault)>>
  /\ UNCHANGED <<docText, numPages, fields, file, fault, thrown, sent,
                 inferVars, pageVars>>

ProcessPdfFile ==
  /\ call = "none"
  /\ file # <<>>
  /\ call' = "processPdfFile"
  /\ LET result == processPdfFile(file[1], docText, numPages, fault) IN
       /\ thrown' = result.thrown
       /\ fields' = result.fields
  /\ UNCHANGED <<docText, numPages, file, fault, response, sent,
                 inferVars, pageVars>>

Next == Post \/ ProcessPdfFile

Spec == Init /\ [][Next]_vars

(***************************************************************************)
(* The layout specification: POST on an upload whose text is generated     *)
(* from a sequence of field types                                          *)
(***************************************************************************)
MaxFields == 3    \* fields of a short document
LongRun == 64     \* fields of a long document

\* an explicit type outside the FieldType enumeration
STR_custom == <<"c","u","s","t","o","m">>

\* one type of each size the grid knows, and a type it does not know
LayoutTypes == {STR_text, STR_signature, STR_checkbox, STR_image, STR_custom}

\* the long documents repeat one of these type patterns
LongPatterns ==
  {<<STR_text>>, <<STR_signature>>, <<STR_checkbox>>, <<STR_image>>,
   <<STR_custom, STR_text, STR_signature>>,
   <<STR_signature, STR_image, STR_checkbox>>,
   <<STR_initials, STR_checkbox>>}

Repeat(pattern, n) == [k \in 1..n |-> pattern[((k - 1) % Len(pattern)) + 1]]

TypeSeqs ==
  SeqsUpTo(LayoutTypes, MaxFields)
    \cup {Repeat(pattern, LongRun) : pattern \in LongPatterns}

\* the k-th field's name: two letters, no inference pattern among them
Letters == <<"b", "c", "d", "f", "g", "h", "j", "k", "m">>
fieldName(k) ==
  <<Letters[((k - 1) \div Len(Letters)) + 1], Letters[((k - 1) % Len(Letters)) + 1]>>

\* a tag that states its type:  {{bc}}  {{bc;type=image}}
attrTag(k, type) ==
  tagText(fieldName(k),
          IF type = STR_text THEN <<>> ELSE <<KEY_type \o <<"=">> \o type>>)

\* a tag that leaves its type to the inference where the inference can
\* give it (a declared type overrides the inferred one where it cannot),
\* names a role, and is followed by text:
\*   {{buyer_bc}}  {{bc_sign}}  {{bc_agree}}  {{logobc}}
\*   {{bc_sign;role=Buyer;type=custom}}
nameTag(k, type) ==
  (IF type = STR_signature
     THEN tagText(fieldName(k) \o <<"_","s","i","g","n">>, <<>>)
   ELSE IF type = STR_checkbox
     THEN tagText(fieldName(k) \o <<"_","a","g","r","e","e">>, <<>>)
   ELSE IF type = STR_image
     THEN tagText(<<"l","o","g","o">> \o fieldName(k), <<>>)
   ELSE IF type = STR_text
     THEN tagText(<<"b","u","y","e","r","_">> \o fieldName(k), <<>>)
   ELSE tagText(fieldName(k) \o <<"_","s","i","g","n">>,
                <<KEY_role \o <<"=","B","u","y","e","r">>,
                  KEY_type \o <<"=">> \o type>>))
    \o <<" ", "a", "n", "d", "\n">>

\* the document of a type sequence, in one of the two styles
LayoutText(types, named) ==
  concat([k \in 1..Len(types) |->
            IF named THEN nameTag(k, types[k]) ELSE attrTag(k, types[k])])

LayoutTexts ==
  {LayoutText(types, FALSE) : types \in TypeSeqs}
    \cup {LayoutText(types, TRUE) : types \in SeqsUpTo(LayoutTypes, MaxFields)}

LayoutFiles ==
  {<<[type |-> t, size |-> 1024]>> : t \in {MIME_PDF, MIME_DOCX}}

InitLayout ==
  /\ file \in LayoutFiles
  /\ docText \in LayoutTexts
  /\ numPages \in IF file[1].type = MIME_PDF THEN 1..MaxPages ELSE {0}
  /\ fault = <<>>
  /\ call = "none"
  /\ fields = <<>>
  /\ thrown = <<>>
  /\ response = <<>>
  /\ sent = <<>>
  /\ tagName = <<>>
  /\ inferredType = <<>>
  /\ inferredRole = <<>>
  /\ PagesClosed

NextLayout == Post

SpecLayout == InitLayout /\ [][NextLayout]_vars

(***************************************************************************)
(* The DocuSeal client (class DocuSealClient): createTemplate posts the    *)
(* extracted fields to the DocuSeal API                                    *)
(***************************************************************************)
\* convertToDocuSealField(field, includeAreas); the areas key of the object
\* is optional
convertToDocuSealField(field, includeAreas) ==
  [name          |-> field.name,
   type          |-> field.type,
   role          |-> field.role,
   required      |-> field.required,
   readonly      |-> field.readonly,
   default_value |-> field.defaultValue,
   areas         |-> IF includeAreas /\ Len(field.areas) > 0
                       THEN <<[k \in 1..Len(field.areas) |->
                                 [x    |-> field.areas[k].x,
                                  y    |-> field.areas[k].y,
                                  w    |-> field.areas[k].w,
                                  h    |-> field.areas[k].h,
                                  page |-> field.areas[k].page]]>>
                       ELSE <<>>]

\* options?.externalId, options?.folderName, options?.fileType
optionOf(options, key) == IF options = <<>> THEN <<>> ELSE options[1][key]

\* the fields converted with the parameter's default, includeAreas = true
createTemplate_withAreas(name, documentName, documentBase64, fs, options) ==
  [endpoint |-> IF optionOf(options, "fileType") = <<"docx">>
                  THEN "/templates/docx" ELSE "/templates/pdf",
   payload  |->
     [name        |-> name,
      external_id |-> optionOf(options, "externalId"),
      folder_name |-> optionOf(options, "folderName"),
      documents   |->
        <<[name        |-> documentName,
           file        |-> documentBase64,
           fields      |-> [k \in 1..Len(fs) |->
                              convertToDocuSealField(fs[k], TRUE)],
           remove_tags |-> TRUE]>>]]

\* createTemplate(name, documentName, documentBase64, fields, options): the
\* request handed to this.client.post(endpoint, payload)
createTemplate(name, documentName, documentBase64, fs, options) ==
  [endpoint |-> IF optionOf(options, "fileType") = <<"docx">>
                  THEN "/templates/docx" ELSE "/templates/pdf",
   payload  |->
     [name        |-> name,
      external_id |-> optionOf(options, "externalId"),
      folder_name |-> optionOf(options, "folderName"),
      documents   |->
        <<[name        |-> documentName,
           file        |-> documentBase64,
           fields      |-> [k \in 1..Len(fs) |->
                              convertToDocuSealField(fs[k], FALSE)],
           remove_tags |-> TRUE]>>]]

\* handleError(error): the ApiError thrown in place of the error caught;
\* the code `HTTP_${status}` is kept as the pair of its two parts
handleError(error) ==
  IF error.isAxiosError
    THEN [code    |-> IF error.status # <<>> THEN <<"HTTP_", error.status[1]>>
                      ELSE <<"NETWORK_ERROR">>,
          message |-> IF error.dataMessage # <<>> /\ error.dataMessage[1] # ""
                        THEN error.dataMessage[1] ELSE error.message]
    ELSE [code    |-> <<"UNKNOWN_ERROR">>,
          message |-> IF error.message # "" THEN error.message
                      ELSE "An unknown error occurred"]

(***************************************************************************)
(* The template specification: an upload is handled, then its fields are   *)
(* posted as a template                                                    *)
(***************************************************************************)
\* the options argument: left out, empty, or with every key set
TemplateOptions ==
  {<<>>,
   <<[externalId |-> <<>>, folderName |-> <<>>, fileType |-> <<>>]>>,
   <<[externalId |-> <<"crm-17">>, folderName |-> <<"Sales">>,
      fileType |-> <<"docx">>]>>}

\* what this.client.post does: it resolves, or rejects with an error
PostErrors ==
  {<<>>,
   <<[isAxiosError |-> TRUE, status |-> <<422>>,
      dataMessage |-> <<"Invalid document">>,
      message |-> "Request failed with status code 422"]>>,
   <<[isAxiosError |-> TRUE, status |-> <<>>, dataMessage |-> <<>>,
      message |-> "Network Error"]>>,
   <<[isAxiosError |-> FALSE, status |-> <<>>, dataMessage |-> <<>>,
      message |-> ""]>>}

\* the fields at hand after the upload was handled: those of a success
\* response of POST, or those processPdfFile returned
FieldsAtHand ==
  IF call = "POST" THEN response[1].fields[1] ELSE fields

CreateTemplate ==
  /\ sent = <<>>
  /\ \/ call = "POST" /\ response[1].success
     \/ call = "processPdfFile" /\ thrown = <<>>
  /\ \E options \in TemplateOptions, error \in PostErrors :
       /\ sent' = <<createTemplate("Contract", "contract.pdf", "JVBERi0x",
                                   FieldsAtHand, options)>>
       /\ thrown' = IF error = <<>> THEN thrown
                    ELSE <<handleError(error[1])>>
  /\ UNCHANGED <<docText, numPages, call, fields, file, fault, response,
                 inferVars, pageVars>>

\* the uploads: single tags with every combination of attribute parts, and
\* the texts of the pipeline specification
TemplateTexts == AttrTexts \cup UploadTexts

InitTemplate ==
  /\ file \in LayoutFiles
  /\ docText \in TemplateTexts
  /\ numPages = IF file[1].type = MIME_PDF THEN 1 ELSE 0
  /\ fault = <<>>
  /\ call = "none"
  /\ fields = <<>>
  /\ thrown = <<>>
  /\ response = <<>>
  /\ sent = <<>>
  /\ tagName = <<>>
  /\ inferredType = <<>>
  /\ inferredRole = <<>>
  /\ PagesClosed

NextTemplate == Post \/ ProcessPdfFile \/ CreateTemplate

SpecTemplate == InitTemplate /\ [][NextTemplate]_vars

(***************************************************************************)
(* The pages and the store are studied apart from the document pipeline:   *)
(* no document is at hand while a page runs.                               *)
(***************************************************************************)
NoDocument ==
  /\ tagName = <<>>
  /\ inferredType = <<>>
  /\ inferredRole = <<>>
  /\ docText = <<>>
  /\ numPages = 0
  /\ call = "none"
  /\ fields = <<>>
  /\ file = <<>>
  /\ fault = <<>>
  /\ thrown = <<>>
  /\ response = <<>>
  /\ sent = <<>>

documentVars == <<inferVars, parseVars, requestVars>>

(***************************************************************************)
(* The signing page: SignContent (app/sign/page.tsx)                       *)
(***************************************************************************)
MaxMessages == 3   \* message events delivered to the window

\* who posts a message to the window: the embedded DocuSeal signing frame,
\* or any other window or script
DOCUSEAL_FRAME == "docuseal-frame"
OTHER_WINDOW == "other-window"

\* the message events: event.source and event.data.type
MessageEvents ==
  [source : {DOCUSEAL_FRAME, OTHER_WINDOW},
   type   : {"docuseal:completed", "docuseal:loaded", "resize"}]

\* the ?url= parameters: absent, or an embed URL
EmbedUrls == {<<>>, <<"https://docuseal.com/s/abc">>}

\* the component after its first render: the useState defaults; no effect
\* has run, no listener is registered, no message was delivered
signContentStart(embedUrl) ==
  [embedUrl    |-> embedUrl,
   isLoading   |-> TRUE,
   isCompleted |-> FALSE,
   error       |-> <<>>,
   effectRan   |-> FALSE,
   listening   |-> FALSE,
   received    |-> <<>>]

\* const handleMessage = (event: MessageEvent) => { ... }
handleMessage(state, event) ==
  IF event.type = "docuseal:completed"
    THEN [state EXCEPT !.isCompleted = TRUE, !.isLoading = FALSE]
  ELSE IF event.type = "docuseal:loaded"
    THEN [state EXCEPT !.isLoading = FALSE]
  ELSE state

InitSign ==
  /\ NoDocument
  /\ signContent \in {signContentStart(u) : u \in EmbedUrls}
  /\ submissionsPage = <<>>
  /\ shareLinks = <<>>
  /\ templateStore = <<>>

\* useEffect(() => { ... }, [embedUrl]) after the first render
SignEffect ==
  /\ ~signContent.effectRan
  /\ signContent' =
       IF signContent.embedUrl = <<>>
         THEN [signContent EXCEPT !.error = <<"No signing URL provided">>,
                                  !.isLoading = FALSE,
                                  !.effectRan = TRUE]
         ELSE [signContent EXCEPT !.listening = TRUE, !.effectRan = TRUE]
  /\ UNCHANGED <<documentVars, submissionsPage, shareLinks, templateStore>>

\* a message event reaches the window while the listener is registered
HandleMessage ==
  /\ signContent.listening
  /\ Len(signContent.received) < MaxMessages
  /\ \E event \in MessageEvents :
       signContent' =
         [handleMessage(signContent, event)
            EXCEPT !.received = Append(@, event)]
  /\ UNCHANGED <<documentVars, submissionsPage, shareLinks, templateStore>>

\* <iframe onLoad={() => setIsLoading(false)} />: the frame is rendered
\* while there is an embed URL and the signing is not completed
IframeOnLoad ==
  /\ signContent.effectRan
  /\ signContent.embedUrl # <<>>
  /\ ~signContent.isCompleted
  /\ signContent.isLoading
  /\ signContent' = [signContent EXCEPT !.isLoading = FALSE]
  /\ UNCHANGED <<documentVars, submissionsPage, shareLinks, templateStore>>

NextSign == SignEffect \/ HandleMessage \/ IframeOnLoad

SpecSign == InitSign /\ [][NextSign]_vars

(***************************************************************************)
(* The submissions list: SubmissionsPage (app/submissions/page.tsx), its   *)
(* copy buttons.  A component function closes over the state of the render *)
(* it ran in: copyToClipboard and the callback it hands to setTimeout read  *)
(* the copiedStates of the render in which the button was clicked.         *)
(***************************************************************************)
MaxCopies == 3   \* clicks on copy buttons

\* the copy keys `${submission.id}-${submitter.id}` of the links shown
CopyKeys == {"1-1", "1-2", "2-1"}

\* { ...copiedStates, [key]: value }
spread(copiedStates, key, value) ==
  [k \in DOMAIN copiedStates \cup {key} |->
     IF k = key THEN value ELSE copiedStates[k]]

\* the page with its links rendered: const [copiedStates] = useState({}),
\* no clipboard write under way, no timer set, no button clicked
submissionsPageStart ==
  [copiedStates |-> [k \in {} |-> FALSE],
   writes       |-> {},
   timers       |-> <<>>,
   clicks       |-> <<>>]

InitList ==
  /\ NoDocument
  /\ submissionsPage = submissionsPageStart
  /\ signContent = <<>>
  /\ shareLinks = <<>>
  /\ templateStore = <<>>

\* onClick={() => copyToClipboard(url, copyKey)} up to its await: the
\* clipboard write starts; what follows the await runs with the
\* copiedStates of this render
CopyToClipboard ==
  /\ Len(submissionsPage.clicks) < MaxCopies
  /\ \E key \in CopyKeys :
       submissionsPage' =
         [submissionsPage EXCEPT
            !.writes = @ \cup {[n            |-> Len(submissionsPage.clicks) + 1,
                                key          |-> key,
                                copiedStates |-> submissionsPage.copiedStates]},
            !.clicks = Append(@, key)]
  /\ UNCHANGED <<documentVars, signContent, shareLinks, templateStore>>

\* navigator.clipboard.writeText resolved: setCopiedStates({...copiedStates,
\* [key]: true}) and setTimeout(..., 2000)
ClipboardWritten ==
  /\ \E w \in submissionsPage.writes :
       submissionsPage' =
         [submissionsPage EXCEPT
            !.copiedStates = spread(w.copiedStates, w.key, TRUE),
            !.writes = @ \ {w},
            !.timers = Append(@, w)]
  /\ UNCHANGED <<documentVars, signContent, shareLinks, templateStore>>

\* navigator.clipboard.writeText rejected: the catch branch shows a toast
ClipboardRejected ==
  /\ \E w \in submissionsPage.writes :
       submissionsPage' = [submissionsPage EXCEPT !.writes = @ \ {w}]
  /\ UNCHANGED <<documentVars, signContent, shareLinks, templateStore>>

\* the callback of setTimeout: setCopiedStates({...copiedStates, [key]:
\* false}).  Timers of equal delay run in the order they were set.
CopiedReset ==
  /\ submissionsPage.timers # <<>>
  /\ submissionsPage' =
       [submissionsPage EXCEPT
          !.copiedStates = spread(Head(submissionsPage.timers).copiedStates,
                                  Head(submissionsPage.timers).key, FALSE),
          !.timers = Tail(@)]
  /\ UNCHANGED <<documentVars, signContent, shareLinks, templateStore>>

NextList ==
  CopyToClipboard \/ ClipboardWritten \/ ClipboardRejected \/ CopiedReset

SpecList == InitList /\ [][NextList]_vars

(***************************************************************************)
(* The share-links page: ShareLinksContent                                 *)
(* (app/submissions/share-links/page.tsx).  The page shows the generated   *)
(* links while generatedLinks is not empty and the form otherwise.  A      *)
(* GeneratedLink is an object: arrays copied with [...generatedLinks]      *)
(* share their elements, so `copied` is kept per object, apart from the    *)
(* arrays that hold it.  An array is a sequence of references, a reference *)
(* the number of the submission and the place of the submitter in it.      *)
(***************************************************************************)
MaxSubmissions == 2   \* submissions created with generateLinks
MaxLinkCopies == 2    \* clicks on the copy button of a link

\* the templates fetched from /api/docuseal/templates, with their roles
TemplateRoles ==
  [t \in {"1", "2"} |->
     IF t = "1" THEN <<"Client">> ELSE <<"Client", "Witness">>]

\* the state after fetchTemplates and the first effect; templateIdParam
\* preselects a template or not
shareLinksStart(templateIdParam) ==
  [selectedTemplateId |-> templateIdParam,
   submitters     |-> IF templateIdParam = "" THEN <<>>
                      ELSE TemplateRoles[templateIdParam],
   generatedLinks |-> <<>>,
   submissionId   |-> <<>>,
   isGenerating   |-> FALSE,
   copied         |-> [ref \in {} |-> FALSE],
   submissions    |-> 0,
   writes         |-> {},
   timers         |-> <<>>,
   clicks         |-> 0,
   cleared        |-> FALSE]

\* the links of the submission the API created: one per submitter
linksOf(submission, submitters) ==
  [k \in 1..Len(submitters) |-> [submission |-> submission, index |-> k]]

\* const a = [...links]; a[index].copied = value; setGeneratedLinks(a)
markCopied(state, links, index, value) ==
  [state EXCEPT !.generatedLinks = links,
                !.copied = [ref \in DOMAIN state.copied |->
                              IF ref = links[index] THEN value
                              ELSE state.copied[ref]]]

InitShare ==
  /\ NoDocument
  /\ shareLinks \in {shareLinksStart(t) : t \in {"", "1", "2"}}
  /\ signContent = <<>>
  /\ submissionsPage = <<>>
  /\ templateStore = <<>>

\* <Select onValueChange={setSelectedTemplateId}> in the form, and the
\* effect on [selectedTemplateId, templates] that follows the render
SetSelectedTemplateId ==
  /\ shareLinks.generatedLinks = <<>>
  /\ ~shareLinks.isGenerating
  /\ \E t \in DOMAIN TemplateRoles :
       /\ t # shareLinks.selectedTemplateId
       /\ shareLinks' = [shareLinks EXCEPT !.selectedTemplateId = t,
                                           !.submitters = TemplateRoles[t],
                                           !.generatedLinks = <<>>,
                                           !.submissionId = <<>>,
                                           !.cleared = TRUE]
  /\ UNCHANGED <<documentVars, signContent, submissionsPage, templateStore>>

\* generateLinks up to its fetch: the form was submitted with a template
\* and its roles
GenerateLinks ==
  /\ shareLinks.generatedLinks = <<>>
  /\ ~shareLinks.isGenerating
  /\ shareLinks.selectedTemplateId # ""
  /\ shareLinks.submitters # <<>>
  /\ shareLinks.submissions < MaxSubmissions
  /\ shareLinks' = [shareLinks EXCEPT !.isGenerating = TRUE]
  /\ UNCHANGED <<documentVars, signContent, submissionsPage, templateStore>>

\* the fetch answered with the submitters of a new submission:
\* setSubmissionId, setGeneratedLinks(links), setIsGenerating(false)
LinksGenerated ==
  /\ shareLinks.isGenerating
  /\ LET id    == shareLinks.submissions + 1
         links == linksOf(id, shareLinks.submitters)
     IN shareLinks' =
          [shareLinks EXCEPT
             !.submissionId = <<id>>,
             !.generatedLinks = links,
             !.copied = [ref \in DOMAIN @ \cup
                                   {links[k] : k \in 1..Len(links)} |->
                           IF ref \in DOMAIN @ THEN @[ref] ELSE FALSE],
             !.submissions = id,
             !.isGenerating = FALSE,
             !.cleared = FALSE]
  /\ UNCHANGED <<documentVars, signContent, submissionsPage, templateStore>>

\* the fetch failed or returned no submitter: the catch branch shows a
\* toast, then setIsGenerating(false)
GenerateFailed ==
  /\ shareLinks.isGenerating
  /\ shareLinks' = [shareLinks EXCEPT !.isGenerating = FALSE]
  /\ UNCHANGED <<documentVars, signContent, submissionsPage, templateStore>>

\* onClick={() => copyToClipboard(link, index)} up to its await; what
\* follows the await runs with the generatedLinks of this render
CopyLink ==
  /\ shareLinks.generatedLinks # <<>>
  /\ shareLinks.clicks < MaxLinkCopies
  /\ \E index \in 1..Len(shareLinks.generatedLinks) :
       shareLinks' =
         [shareLinks EXCEPT
            !.writes = @ \cup {[n     |-> shareLinks.clicks + 1,
                                index |-> index,
                                generatedLinks |-> shareLinks.generatedLinks]},
            !.clicks = @ + 1]
  /\ UNCHANGED <<documentVars, signContent, submissionsPage, templateStore>>

\* navigator.clipboard.writeText resolved: newLinks[index].copied = true,
\* setGeneratedLinks(newLinks), setTimeout(..., 2000)
LinkWritten ==
  /\ \E w \in shareLinks.writes :
       shareLinks' =
         [markCopied(shareLinks, w.generatedLinks, w.index, TRUE) EXCEPT
            !.writes = @ \ {w},
            !.timers = Append(@, w)]
  /\ UNCHANGED <<documentVars, signContent, submissionsPage, templateStore>>

\* navigator.clipboard.writeText rejected: the catch branch shows a toast
LinkWriteRejected ==
  /\ \E w \in shareLinks.writes :
       shareLinks' = [shareLinks EXCEPT !.writes = @ \ {w}]
  /\ UNCHANGED <<documentVars, signContent, submissionsPage, templateStore>>

\* the callback of setTimeout: resetLinks[index].copied = false,
\* setGeneratedLinks(resetLinks)
LinkCopiedReset ==
  /\ shareLinks.timers # <<>>
  /\ shareLinks' =
       [markCopied(shareLinks, Head(shareLinks.timers).generatedLinks,
                   Head(shareLinks.timers).index, FALSE) EXCEPT
          !.timers = Tail(@)]
  /\ UNCHANGED <<documentVars, signContent, submissionsPage, templateStore>>

\* resetForm, from the button shown with the links, and the effect that
\* follows the change of selectedTemplateId
ResetForm ==
  /\ shareLinks.generatedLinks # <<>>
  /\ shareLinks' = [shareLinks EXCEPT !.generatedLinks = <<>>,
                                      !.submissionId = <<>>,
                                      !.selectedTemplateId = "",
                                      !.submitters = <<>>,
                                      !.cleared = TRUE]
  /\ UNCHANGED <<documentVars, signContent, submissionsPage, templateStore>>

NextShare ==
  \/ SetSelectedTemplateId
  \/ GenerateLinks
  \/ LinksGenerated
  \/ GenerateFailed
  \/ CopyLink
  \/ LinkWritten
  \/ LinkWriteRejected
  \/ LinkCopiedReset
  \/ ResetForm

SpecShare == InitShare /\ [][NextShare]_vars

(***************************************************************************)
(* The template store: useTemplateStore (stores/templateStore.ts).  Each   *)
(* action of the store is an operator from the state to the state that     *)
(* set(...) leaves; set merges the object it is given into the state.      *)
(***************************************************************************)
MaxStoreFields == 2   \* fields held by the store
MaxAreas == 2         \* areas of one field

\* const initialState = { ... }
initialState ==
  [currentTemplate |-> <<>>,
   fields          |-> <<>>,
   selectedFieldId |-> <<>>,
   documentBase64  |-> <<>>,
   documentFile    |-> <<>>,
   pdfPreviewUrl   |-> <<>>,
   currentPage     |-> 1,
   totalPages      |-> 0,
   zoom            |-> 1,
   isProcessing    |-> FALSE,
   isExtracting    |-> FALSE,
   isSaving        |-> FALSE,
   error           |-> <<>>]

\* { ...object, ...updates } for objects with the same keys or fewer
merged(object, updates) ==
  [key \in DOMAIN object |->
     IF key \in DOMAIN updates THEN updates[key] ELSE object[key]]

\* array.filter((_, index) => index !== areaIndex), areaIndex from 0
withoutIndex(array, areaIndex) ==
  [k \in 1..(Len(array) - (IF areaIndex + 1 \in 1..Len(array) THEN 1 ELSE 0))
     |-> IF k < areaIndex + 1 THEN array[k] ELSE array[k + 1]]

setFields(state, fs) == [state EXCEPT !.fields = fs]

addField(state, field) == [state EXCEPT !.fields = Append(@, field)]

updateField(state, id, updates) ==
  [state EXCEPT !.fields =
     [k \in 1..Len(state.fields) |->
        IF state.fields[k].id = id THEN merged(state.fields[k], updates)
        ELSE state.fields[k]]]

deleteField(state, id) ==
  [state EXCEPT
     !.fields = SelectSeq(@, LAMBDA field : field.id # id),
     !.selectedFieldId = IF @ = <<id>> THEN <<>> ELSE @]

selectField(state, id) == [state EXCEPT !.selectedFieldId = id]

updateFieldPosition(state, id, areaIndex, areaUpdates) ==
  [state EXCEPT !.fields =
     [k \in 1..Len(state.fields) |->
        IF /\ state.fields[k].id = id
           /\ areaIndex + 1 \in 1..Len(state.fields[k].areas)
          THEN [state.fields[k] EXCEPT
                  !.areas[areaIndex + 1] = merged(@, areaUpdates)]
          ELSE state.fields[k]]]

addFieldArea(state, id, area) ==
  [state EXCEPT !.fields =
     [k \in 1..Len(state.fields) |->
        IF state.fields[k].id = id
          THEN [state.fields[k] EXCEPT !.areas = Append(@, area)]
          ELSE state.fields[k]]]

removeFieldArea(state, id, areaIndex) ==
  [state EXCEPT !.fields =
     [k \in 1..Len(state.fields) |->
        IF state.fields[k].id = id
          THEN [state.fields[k] EXCEPT !.areas = withoutIndex(@, areaIndex)]
          ELSE state.fields[k]]]

setCurrentPage(state, page) == [state EXCEPT !.currentPage = page]

reset(state) == merged(state, initialState)

\* the ids, the areas and the fields the callers pass
FieldIds == {"f1", "f2"}
StoreAreas == {[x |-> 100, page |-> 1], [x |-> 550, page |-> 1]}
AreaUpdates == {[x |-> 550], [x |-> 100, page |-> 1]}
newField(id) ==
  [id |-> id, name |-> "a", areas |-> <<[x |-> 100, page |-> 1]>>]
FieldUpdates == {[name |-> "b"]} \cup {[id |-> id] : id \in FieldIds}
FieldLists ==
  {<<>>, <<newField("f1")>>, <<newField("f2")>>,
   <<newField("f1"), newField("f2")>>}

\* the ids of the fields in the store
StoredIds ==
  {templateStore.fields[k].id : k \in 1..Len(templateStore.fields)}

InitStore ==
  /\ NoDocument
  /\ templateStore = initialState
  /\ signContent = <<>>
  /\ submissionsPage = <<>>
  /\ shareLinks = <<>>

untouchedByStore == <<documentVars, signContent, submissionsPage, shareLinks>>

SetFields ==
  /\ \E fs \in FieldLists : templateStore' = setFields(templateStore, fs)
  /\ UNCHANGED untouchedByStore

AddField ==
  /\ Len(templateStore.fields) < MaxStoreFields
  /\ \E id \in FieldIds :
       templateStore' = addField(templateStore, newField(id))
  /\ UNCHANGED untouchedByStore

UpdateField ==
  /\ \E id \in FieldIds, updates \in FieldUpdates :
       templateStore' = updateField(templateStore, id, updates)
  /\ UNCHANGED untouchedByStore

DeleteField ==
  /\ \E id \in FieldIds : templateStore' = deleteField(templateStore, id)
  /\ UNCHANGED untouchedByStore

\* selectField with null or the id of a field in the store
SelectField ==
  /\ \E id \in {<<>>} \cup {<<i>> : i \in StoredIds} :
       templateStore' = selectField(templateStore, id)
  /\ UNCHANGED untouchedByStore

UpdateFieldPosition ==
  /\ \E id \in FieldIds, areaIndex \in 0..MaxAreas,
        areaUpdates \in AreaUpdates :
       templateStore' =
         updateFieldPosition(templateStore, id, areaIndex, areaUpdates)
  /\ UNCHANGED untouchedByStore

AddFieldArea ==
  /\ \E id \in FieldIds, area \in StoreAreas :
       /\ \A k \in 1..Len(templateStore.fields) :
            templateStore.fields[k].id = id =>
              Len(templateStore.fields[k].areas) < MaxAreas
       /\ templateStore' = addFieldArea(templateStore, id, area)
  /\ UNCHANGED untouchedByStore

RemoveFieldArea ==
  /\ \E id \in FieldIds, areaIndex \in 0..MaxAreas :
       templateStore' = removeFieldArea(templateStore, id, areaIndex)
  /\ UNCHANGED untouchedByStore

SetCurrentPage ==
  /\ \E page \in 1..2 : templateStore' = setCurrentPage(templateStore, page)
  /\ UNCHANGED untouchedByStore

Reset ==
  /\ templateStore' = reset(templateStore)
  /\ UNCHANGED untouchedByStore

NextStore ==
  \/ SetFields
  \/ AddField
  \/ UpdateField
  \/ DeleteField
  \/ SelectField
  \/ UpdateFieldPosition
  \/ AddFieldArea
  \/ RemoveFieldArea
  \/ SetCurrentPage
  \/ Reset

SpecStore == InitStore /\ [][NextStore]_vars

(***************************************************************************)
(* Claims about the inference engine (checked under SpecInfer)             *)
(***************************************************************************)
\* the table orders as the specification declares them
DeclaredTypeOrder ==
  <<STR_signature, STR_initials, STR_date, STR_image, STR_checkbox,
    STR_phone, STR_number, STR_text, STR_file, STR_select, STR_radio,
    STR_stamp>>
DeclaredRoleOrder == <<STR_ServiceProvider, STR_Client, STR_FirstParty>>

\* p occurs in s at some offset, character by character
Occurs(p, s) ==
  \E a \in 0..(Len(s) - Len(p)) : \A j \in 1..Len(p) : s[a + j] = p[j]

\* the entries of a table with a pattern that occurs in the lower-cased name
Hits(table, lowerName) ==
  {i \in 1..Len(table) :
     \E k \in 1..Len(table[i].patterns) :
        Occurs(table[i].patterns[k], lowerName)}

\* C3: inferFieldType returns the type of the first entry, in the declared
\* order signature, initials, date, image, checkbox, phone, number, text,
\* file, select, radio, stamp, that has a pattern contained in the
\* lower-cased name, and text when no entry has one.
C3_FirstTypeEntryWins ==
  inferredType # <<>> =>
    LET hits == Hits(FIELD_TYPE_INFERENCE, toLowerCase(tagName)) IN
      /\ Len(FIELD_TYPE_INFERENCE) = Len(DeclaredTypeOrder)
      /\ hits = {} => inferredType[1] = STR_text
      /\ hits # {} => inferredType[1] = DeclaredTypeOrder[Min(hits)]

\* C3 witness: a name holding both a date and a signature pattern was
\* resolved to signature, the earlier entry.
C3_Witness ==
  /\ inferredType = <<STR_signature>>
  /\ includes(toLowerCase(tagName), STR_date)
  /\ includes(toLowerCase(tagName), STR_signature)

\* C4: inferRole returns the first role, in the declared order Service
\* Provider, Client, First Party, that has a pattern contained in the
\* lower-cased name, and First Party when none has.
C4_FirstRoleEntryWins ==
  inferredRole # <<>> =>
    LET hits == Hits(ROLE_INFERENCE, toLowerCase(tagName)) IN
      /\ Len(ROLE_INFERENCE) = Len(DeclaredRoleOrder)
      /\ hits = {} => inferredRole[1] = STR_FirstParty
      /\ hits # {} => inferredRole[1] = DeclaredRoleOrder[Min(hits)]

\* C4 witness: a name holding a Service Provider pattern and a Client
\* pattern was resolved to Service Provider.
C4_Witness ==
  /\ inferredRole = <<STR_ServiceProvider>>
  /\ includes(toLowerCase(tagName), <<"p","r","o","v","i","d","e","r">>)
  /\ includes(toLowerCase(tagName), <<"c","l","i","e","n","t">>)

(***************************************************************************)
(* Claims about the tag parser (checked under SpecParse)                   *)
(***************************************************************************)
\* the text the function scanned, and the tag occurrences in it
ScannedText ==
  IF call = "extractTagsFromPDF" THEN pdfText(docText, numPages) ELSE docText
Occurrences == tagMatches(ScannedText, 1)

\* the trimmed name of a tag occurrence
NameOfTag(tag) == trim(split(trim(SubSeq(tag, 3, Len(tag) - 2)), ";")[1])

\* the position of the first occurrence of a name
FirstOccurrence(name) ==
  Min({i \in 1..Len(Occurrences) : NameOfTag(Occurrences[i].m0) = name})

\* the descriptor attributes a claim compares (id and areas left out)
Attributes(f) ==
  <<f.originalTag, f.name, f.type, f.role, f.required, f.readonly,
    f.defaultValue, f.placeholder>>

\* C1: in the output of extractTags, extractTagsFromPDF and
\* extractTagsFromDOCX no two descriptors have the same name, and each
\* descriptor carries the original tag and the attributes of the first
\* occurrence of its name, as if that occurrence stood alone.
C1_FirstOccurrenceWins ==
  call # "none" =>
    /\ \A i, j \in 1..Len(fields) : i # j => fields[i].name # fields[j].name
    /\ \A i \in 1..Len(fields) :
         LET first == Occurrences[FirstOccurrence(fields[i].name)].m0
         IN Attributes(fields[i]) = Attributes(extractTags(first)[1])

\* C1 witness: the text "{{x}}...{{x;type=date}}" was parsed and the one
\* field named x has the type inferred from the name, not date.
C1_Witness ==
  /\ call \in {"extractTags", "extractTagsFromPDF", "extractTagsFromDOCX"}
  /\ \E i, j \in 1..Len(Occurrences) :
       /\ i < j
       /\ Occurrences[i].m0 = <<"{","{","x","}","}">>
       /\ Occurrences[j].m0 =
            <<"{","{","x",";","t","y","p","e","=","d","a","t","e","}","}">>
  /\ \E k \in 1..Len(fields) :
       fields[k].name = <<"x">> /\ fields[k].type = STR_text

\* C2: extractTags returns exactly one descriptor per distinct trimmed tag
\* name among the matches, ordered by each name's first occurrence, and
\* every descriptor has an empty areas list.
C2_OnePerNameInFirstSeenOrder ==
  call = "extractTags" =>
    LET names == {NameOfTag(Occurrences[i].m0) : i \in 1..Len(Occurrences)} IN
      /\ Len(fields) = Cardinality(names)
      /\ \A k \in 1..Len(fields) :
           fields[k].name \in names /\ fields[k].areas = <<>>
      /\ \A k, l \in 1..Len(fields) :
           k < l => FirstOccurrence(fields[k].name)
                      < FirstOccurrence(fields[l].name)

\* C2 witness: extractTags returned two or more fields for a text in which
\* some name is repeated.
C2_Witness ==
  /\ call = "extractTags"
  /\ Len(fields) >= 2
  /\ Len(Occurrences) > Len(fields)

\* The assignments a tag carries, read off its text: for every part after
\* the name that holds "=", the key is the trimmed text before the first
\* "=" and the value the trimmed text from there to the next "=" or the end
\* of the part.
Assignments(tag) ==
  LET parts == split(trim(SubSeq(tag, 3, Len(tag) - 2)), ";") IN
    [k \in 1..(Len(parts) - 1) |->
       LET part   == parts[k + 1]
           eqs    == {i \in 1..Len(part) : part[i] = "="}
           first  == IF eqs = {} THEN Len(part) + 1 ELSE Min(eqs)
           later  == {i \in eqs : i > first}
           second == IF later = {} THEN Len(part) + 1 ELSE Min(later)
       IN [assigns |-> eqs # {},
           key     |-> trim(SubSeq(part, 1, first - 1)),
           value   |-> trim(SubSeq(part, first + 1, second - 1)),
           rest    |-> trim(SubSeq(part, first + 1, Len(part)))]]

\* the explicit attribute of a tag: the value of the last assignment to the
\* key with a non-empty value, if there is one
Explicit(tag, key) ==
  LET as   == Assignments(tag)
      hits == {k \in 1..Len(as) :
                 as[k].assigns /\ as[k].key = key /\ as[k].value # <<>>}
  IN IF hits = {} THEN <<>> ELSE <<as[Max(hits)].value>>

\* C5: a descriptor's type is the explicit type attribute of its tag when
\* there is one and inferFieldType(name) otherwise; its role is the
\* explicit role attribute when there is one and inferRole(name) otherwise.
C5_ExplicitOverridesInference ==
  call # "none" =>
    \A i \in 1..Len(fields) :
      LET f == fields[i]
          t == Explicit(f.originalTag, KEY_type)
          r == Explicit(f.originalTag, KEY_role)
      IN /\ f.type = IF t # <<>> THEN t[1] ELSE inferFieldType(f.name)
         /\ f.role = IF r # <<>> THEN r[1] ELSE inferRole(f.name)

\* C5 witness: a tag named client_sign with type=number and role=Buyer gave
\* a number field of role Buyer, although the name infers signature/Client.
C5_Witness ==
  /\ call # "none"
  /\ \E i \in 1..Len(fields) :
       /\ fields[i].type = STR_number
       /\ fields[i].role = <<"B","u","y","e","r">>
       /\ inferFieldType(fields[i].name) = STR_signature
       /\ inferRole(fields[i].name) = STR_Client

WholeValue(tag, key) ==
  LET as   == Assignments(tag)
      hits == {k \in 1..Len(as) :
                 as[k].assigns /\ as[k].key = key /\ as[k].rest # <<>>}
  IN IF hits = {} THEN <<>> ELSE <<as[Max(hits)].rest>>

RecognizedKeys ==
  {KEY_type, KEY_role, KEY_required, KEY_readonly, KEY_default_value,
   KEY_placeholder}

\* a tag with the k-th part after its name taken out
WithoutPart(tag, k) ==
  LET parts == split(trim(SubSeq(tag, 3, Len(tag) - 2)), ";") IN
    <<"{", "{">>
      \o join([j \in 1..(Len(parts) - 1) |->
                 IF j <= k THEN parts[j] ELSE parts[j + 1]], <<";">>)
      \o <<"}", "}">>

\* C7, first half: every recognized key=value part records the trimmed
\* value, the whole text of the part after its first "=".
C7_WholeValueRecorded ==
  call # "none" =>
    \A i \in 1..Len(fields) :
      LET f == fields[i]
          t == WholeValue(f.originalTag, KEY_type)
          r == WholeValue(f.originalTag, KEY_role)
      IN /\ f.type = IF t # <<>> THEN t[1] ELSE inferFieldType(f.name)
         /\ f.role = IF r # <<>> THEN r[1] ELSE inferRole(f.name)
         /\ f.required = (WholeValue(f.originalTag, KEY_required) # <<STR_false>>)
         /\ f.readonly = (WholeValue(f.originalTag, KEY_readonly) = <<STR_true>>)
         /\ f.defaultValue = WholeValue(f.originalTag, KEY_default_value)
         /\ f.placeholder = WholeValue(f.originalTag, KEY_placeholder)

\* C7, second half: a part without "=" and a part whose key is not a
\* recognized one change nothing: the descriptor equals the one of the tag
\* with that part taken out.
C7_IgnoredPartsChangeNothing ==
  call # "none" =>
    \A i \in 1..Len(fields) :
      LET f  == fields[i]
          as == Assignments(f.originalTag)
      IN \A k \in 1..Len(as) :
           (~as[k].assigns \/ as[k].key \notin RecognizedKeys) =>
             LET g == extractTags(WithoutPart(f.originalTag, k)) IN
               Len(g) = 1 => Tail(Attributes(g[1])) = Tail(Attributes(f))

\* C7 as stated: both halves.
C7_AttributeParsingAsClaimed ==
  C7_WholeValueRecorded /\ C7_IgnoredPartsChangeNothing

(***************************************************************************)
(* Claims about the document pipeline (checked under Spec)                 *)
(***************************************************************************)
\* the upload passes the handler's file checks
Accepted ==
  /\ file # <<>>
  /\ file[1].type \in {MIME_PDF, MIME_DOCX, MIME_DOC}
  /\ file[1].size <= 10485760

\* the text the extractor of the upload's format scans, and its tags
ExtractedText ==
  IF file # <<>> /\ file[1].type = MIME_PDF
    THEN docText \o [k \in 1..numPages |-> "\n"] ELSE docText
UploadTags == tagMatches(ExtractedText, 1)

\* the distinct tag names of the upload, in the order they are first seen
FirstSeenNames ==
  LET names  == [i \in 1..Len(UploadTags) |-> NameOfTag(UploadTags[i].m0)]
      firsts == {i \in 1..Len(names) : \A j \in 1..(i - 1) : names[j] # names[i]}
      RECURSIVE ascending(_)
      ascending(S) ==
        IF S = {} THEN <<>>
        ELSE <<names[Min(S)]>> \o ascending(S \ {Min(S)})
  IN ascending(firsts)

\* C8: POST never returns a success result with an empty field sequence,
\* and for an accepted PDF or DOCX upload whose extracted text holds zero
\* tags it returns success=false with the no-tags error.
C8_NoSuccessWithoutFields ==
  call = "POST" =>
    LET r == response[1] IN
      /\ r.success => r.fields # <<>> /\ Len(r.fields[1]) >= 1
      /\ (Accepted /\ fault = <<>> /\ Len(UploadTags) = 0) =>
           ~r.success /\ r.error = <<NO_TAGS_MESSAGE>>

\* C8 witness: POST answered a DOCX upload whose text holds no tag with
\* the no-tags error.
C8_Witness ==
  /\ call = "POST"
  /\ Accepted /\ file[1].type = MIME_DOCX /\ fault = <<>>
  /\ Len(docText) > 0 /\ Len(UploadTags) = 0
  /\ ~response[1].success /\ response[1].error = <<NO_TAGS_MESSAGE>>

\* the no-tags case of either entry point: the file passed its checks, the
\* text was extracted and holds no tag
ParserYieldsNoFields ==
  /\ Accepted /\ fault = <<>> /\ Len(UploadTags) = 0
  /\ call = "processPdfFile" => file[1].type = MIME_PDF

\* the no-tags failure result with its debug context
IsNoTagsResult(r) ==
  /\ ~r.success /\ r.error = <<NO_TAGS_MESSAGE>> /\ r.fields = <<>>
  /\ r.debug # <<>>
  /\ r.debug[1].textLength = Len(ExtractedText)
  /\ r.debug[1].textPreview =
       [k \in 1..Min({Len(ExtractedText), 200}) |-> ExtractedText[k]]

\* C9 (as it holds of POST alone): when the parser yields no fields, POST
\* returns the no-tags failure result with the text length and the first
\* 200 characters of the text, and nothing is thrown.
C9_PostReturnsNoTagsResult ==
  (call = "POST" /\ ParserYieldsNoFields) =>
    thrown = <<>> /\ IsNoTagsResult(response[1])

\* C9 witness: POST answered a text longer than the preview with the
\* no-tags result.
C9_Witness ==
  /\ call = "POST" /\ ParserYieldsNoFields
  /\ Len(ExtractedText) > 200
  /\ IsNoTagsResult(response[1])

\* C9: when the parser yields no fields, the entry point, POST or
\* processPdfFile, returns normally with the no-tags failure result that
\* carries the debug context, and throws nothing.
C9_NoTagsReturnedNeverThrown ==
  (call # "none" /\ ParserYieldsNoFields) =>
    /\ thrown = <<>>
    /\ response # <<>> /\ IsNoTagsResult(response[1])

\* C10: every result of POST is a success carrying one field per distinct
\* tag name of the extracted text in first-seen order, or a failure
\* carrying no fields; a missing file, an invalid type, an oversize file,
\* a text without tags and an extractor fault all give such a failure.
C10_AllFieldsOrNone ==
  call = "POST" =>
    LET r == response[1] IN
      /\ r.success =>
           /\ r.fields # <<>>
           /\ [k \in 1..Len(r.fields[1]) |-> r.fields[1][k].name]
                = FirstSeenNames
      /\ ~r.success => r.fields = <<>>
      /\ (~Accepted \/ fault # <<>> \/ Len(UploadTags) = 0) => ~r.success

\* C10 witness: POST returned the two fields of a PDF in which the first
\* name is repeated before the second name appears.
C10_Witness ==
  /\ call = "POST"
  /\ file # <<>> /\ file[1].type = MIME_PDF
  /\ response[1].success
  /\ Len(response[1].fields[1]) = 2
  /\ Len(UploadTags) = 3
  /\ NameOfTag(UploadTags[1].m0) = NameOfTag(UploadTags[2].m0)

\* C10 witness of the failure side: an extractor fault was answered
\* without fields although the text holds tags.
C10_FaultWitness ==
  /\ call = "POST" /\ Accepted /\ fault # <<>>
  /\ Len(UploadTags) > 0
  /\ ~response[1].success /\ response[1].fields = <<>>

(***************************************************************************)
(* Claims about the synthesized layout (checked under SpecLayout)          *)
(***************************************************************************)
\* a success result of POST, its fields and the page count it reports
Succeeded == call = "POST" /\ response[1].success
ResultFields == response[1].fields[1]
ReportedPages == response[1].pageCount[1]

\* the pages named by the areas of a field sequence
PagesOf(fs) == {fs[k].areas[a].page : k \in 1..Len(fs), a \in {1}}

\* C11 (the PDF side, which holds): in every success result for a PDF
\* every area's page is at least 1 and at most the reported page count.
C11_PdfPagesWithinPageCount ==
  (Succeeded /\ file[1].type = MIME_PDF) =>
    \A p \in PagesOf(ResultFields) : 1 <= p /\ p <= ReportedPages

\* C11 witness of the PDF side: a one-page PDF with more fields than fit
\* one page was answered with every field on page 1.
C11_PdfWitness ==
  /\ Succeeded /\ file[1].type = MIME_PDF
  /\ ReportedPages = 1
  /\ Len(ResultFields) = LongRun
  /\ PagesOf(ResultFields) = {1}

\* C11: in every success result, for PDF and for DOCX input, every area's
\* page p satisfies 1 <= p <= the page count reported in the same result.
C11_PagesWithinReportedCount ==
  Succeeded =>
    \A p \in PagesOf(ResultFields) : 1 <= p /\ p <= ReportedPages

\* The layout's page counter at the k-th field of a result, read off the
\* stored boxes: the loop bumps the counter exactly where it resets y to the
\* top margin, and a field after the first has y at the top margin only
\* by such a reset, or by sharing the row of a right-column field that was
\* reset.
ResetAt(fs, j) ==
  /\ j >= 2
  /\ fs[j].areas[1].y = double(topMargin)
  /\ (j % 2 = 0 \/ fs[j - 1].areas[1].y # double(topMargin))
PageCounter(fs, k) == 1 + Cardinality({j \in 1..k : ResetAt(fs, j)})

\* C12: on the PDF path the page stored in each area is the smaller of the
\* layout's page counter and the detected page count; on the DOCX path it
\* is the counter itself.
C12_PdfClampsDocxDoesNot ==
  Succeeded =>
    \A k \in 1..Len(ResultFields) :
      ResultFields[k].areas[1].page =
        IF file[1].type = MIME_PDF
          THEN Min({PageCounter(ResultFields, k), numPages})
          ELSE PageCounter(ResultFields, k)

\* C12 witness: a two-page PDF whose layout reached a third page: a field
\* with counter 2 is stored on page 2, a field with counter 3 as well.
C12_Witness ==
  /\ Succeeded /\ file[1].type = MIME_PDF /\ numPages = 2
  /\ \E k \in 1..Len(ResultFields) :
       /\ PageCounter(ResultFields, k) = 2
       /\ ResultFields[k].areas[1].page = 2
  /\ \E k \in 1..Len(ResultFields) :
       /\ PageCounter(ResultFields, k) = 3
       /\ ResultFields[k].areas[1].page = 2

\* C12 witness of the DOCX path: a field stored on page 3.
C12_DocxWitness ==
  /\ Succeeded /\ file[1].type = MIME_DOCX
  /\ \E k \in 1..Len(ResultFields) : ResultFields[k].areas[1].page = 3

\* 0 and 1 as doubles, and a <= b
zero == [m |-> 0, e |-> 0]
one == double(1000)
atMost(a, b) == ~greater[a, b]

\* the box lies in the unit square and inside the usable page; sums and
\* comparisons are those of JavaScript numbers
InsidePage(a) ==
  /\ atMost(zero, a.x) /\ atMost(a.x, one)
  /\ atMost(zero, a.y) /\ atMost(a.y, one)
  /\ atMost(zero, a.w) /\ atMost(a.w, one)
  /\ atMost(zero, a.h) /\ atMost(a.h, one)
  /\ atMost(plus[a.x, a.w], one)
  /\ atMost(double(topMargin), a.y)
  /\ atMost(plus[a.y, a.h], double(pageHeight))

\* C13: after layout synthesis every field has exactly one area, with
\* 0 <= x, y, w, h <= 1, x + w <= 1, y >= 0.05 and y + h <= 0.95, whatever
\* the sequence of field types, explicit types outside the enumeration
\* included.
C13_OneAreaInsidePage ==
  Succeeded =>
    \A k \in 1..Len(ResultFields) :
      /\ Len(ResultFields[k].areas) = 1
      /\ InsidePage(ResultFields[k].areas[1])

\* C13 witness: a field of the explicit type "custom" that the grid moved
\* to the top of a new page, its one area inside the page.
C13_Witness ==
  /\ Succeeded /\ file[1].type = MIME_DOCX
  /\ \E k \in 1..Len(ResultFields) :
       /\ ResultFields[k].type = STR_custom
       /\ Len(ResultFields[k].areas) = 1
       /\ ResultFields[k].areas[1].page > 1
       /\ ResultFields[k].areas[1].y = double(topMargin)
       /\ InsidePage(ResultFields[k].areas[1])

\* C13 witness at the page bottom: a field inside the page whose box ends
\* less than a field height above 0.95.
C13_BottomWitness ==
  /\ Succeeded
  /\ \E k \in 1..Len(ResultFields) :
       /\ InsidePage(ResultFields[k].areas[1])
       /\ greater[plus[plus[ResultFields[k].areas[1].y,
                            ResultFields[k].areas[1].h],
                       double(fieldHeight)],
                  double(pageHeight)]

\* every field has the default size
DefaultSized(fs) ==
  \A k \in 1..Len(fs) :
    /\ fs[k].areas[1].h = double(fieldHeight)
    /\ fs[k].areas[1].w = double(fieldWidth)

\* the cursor's y when the overflow test is made for the j-th field: the y
\* of the field before it, one row further down when the j-th field goes
\* to the right column
CursorY(fs, j) ==
  IF j = 1 THEN double(topMargin)
  ELSE IF j % 2 = 0
    THEN plus[fs[j - 1].areas[1].y,
              plus[fs[j].areas[1].h, double(verticalGap)]]
    ELSE fs[j - 1].areas[1].y

\* the box of the j-th field would end below 0.95
WouldExceed(fs, j) ==
  greater[plus[CursorY(fs, j), double(fieldHeight)], double(pageHeight)]

\* C14: in a document whose fields all have the default size the page is
\* incremented and y reset to 0.05 at exactly the fields whose box bottom,
\* cursor y + 0.04, would exceed 0.95: no field before the first of them
\* leaves page 1, and the rule is the same on every later page.
C14_OverflowExactlyWhenBoxExceeds ==
  (Succeeded /\ DefaultSized(ResultFields)) =>
    \A j \in 1..Len(ResultFields) :
      /\ ResultFields[j].areas[1].y =
           IF WouldExceed(ResultFields, j) THEN double(topMargin)
           ELSE CursorY(ResultFields, j)
      /\ file[1].type = MIME_DOCX =>
           ResultFields[j].areas[1].page =
             (IF j = 1 THEN 1 ELSE ResultFields[j - 1].areas[1].page)
               + (IF WouldExceed(ResultFields, j) THEN 1 ELSE 0)

\* C14 witness: a DOCX of at least 64 default-size fields: the 32nd field
\* is the first on page 2 and the 64th the first on page 3, both at 0.05.
C14_Witness ==
  /\ Succeeded /\ file[1].type = MIME_DOCX
  /\ DefaultSized(ResultFields)
  /\ Len(ResultFields) >= 64
  /\ \A j \in 1..64 :
       ResultFields[j].areas[1].page =
         IF j < 32 THEN 1 ELSE IF j < 64 THEN 2 ELSE 3
  /\ ResultFields[32].areas[1].y = double(topMargin)
  /\ ResultFields[64].areas[1].y = double(topMargin)
  /\ WouldExceed(ResultFields, 32) /\ ~WouldExceed(ResultFields, 31)

\* the areas and the types of a field sequence, in order
AreasOf(fs) == [k \in 1..Len(fs) |-> fs[k].areas]
TypesOf(fs) == [k \in 1..Len(fs) |-> fs[k].type]

\* the fields the extractor of the upload's format returns for a text
LayoutOf(text) ==
  IF file[1].type = MIME_PDF THEN extractTagsFromPDF(text, numPages).fields
  ELSE extractTagsFromDOCX(text).fields

\* C15: the areas are a function of the ordered type sequence (and, for a
\* PDF, the page count) alone: a document with the same types in the same
\* order, written in either style (other names, other roles, types
\* inferred instead of declared, text between the tags), gets the same
\* areas, field by field.
C15_AreasDependOnTypesOnly ==
  Succeeded =>
    \A named \in BOOLEAN :
      LET other == LayoutOf(LayoutText(TypesOf(ResultFields), named)) IN
        /\ TypesOf(other) = TypesOf(ResultFields)
        /\ AreasOf(other) = AreasOf(ResultFields)

\* C15 witness: the result of a document with declared types has the
\* areas of the document that names the same types through field names,
\* roles and filler text; both hold three fields of different sizes.
C15_Witness ==
  /\ Succeeded
  /\ docText = LayoutText(TypesOf(ResultFields), FALSE)
  /\ docText # LayoutText(TypesOf(ResultFields), TRUE)
  /\ TypesOf(ResultFields) = <<STR_image, STR_checkbox, STR_custom>>
  /\ AreasOf(LayoutOf(LayoutText(TypesOf(ResultFields), TRUE)))
       = AreasOf(ResultFields)

(***************************************************************************)
(* Claims about the template payload (checked under SpecTemplate)          *)
(***************************************************************************)
\* the one document of the payload that was sent
SentDocument == sent[1].payload.documents[1]

\* C16: the payload createTemplate sends holds, for each input field in
\* the same order, its name, type, role, required, readonly and
\* default_value and no areas entry, whatever areas the input fields hold;
\* remove_tags is true.
C16_PayloadMetadataWithoutAreas ==
  sent # <<>> =>
    /\ Len(sent[1].payload.documents) = 1
    /\ SentDocument.remove_tags = TRUE
    /\ Len(SentDocument.fields) = Len(FieldsAtHand)
    /\ \A k \in 1..Len(FieldsAtHand) :
         /\ SentDocument.fields[k].name = FieldsAtHand[k].name
         /\ SentDocument.fields[k].type = FieldsAtHand[k].type
         /\ SentDocument.fields[k].role = FieldsAtHand[k].role
         /\ SentDocument.fields[k].required = FieldsAtHand[k].required
         /\ SentDocument.fields[k].readonly = FieldsAtHand[k].readonly
         /\ SentDocument.fields[k].default_value = FieldsAtHand[k].defaultValue
         /\ SentDocument.fields[k].areas = <<>>

\* C16 witness: a read-only field with a default value and one area was
\* sent with its metadata and without areas.
C16_Witness ==
  /\ sent # <<>> /\ call = "POST"
  /\ Len(FieldsAtHand) = 1
  /\ Len(FieldsAtHand[1].areas) = 1
  /\ FieldsAtHand[1].readonly
  /\ FieldsAtHand[1].defaultValue = <<<<"1", "0", "0">>>>
  /\ SentDocument.fields[1].default_value = <<<<"1", "0", "0">>>>
  /\ SentDocument.fields[1].readonly
  /\ SentDocument.fields[1].areas = <<>>
  /\ SentDocument.remove_tags

\* C16 witness of the order: two fields without areas, as processPdfFile
\* returns them, were sent in their order.
C16_OrderWitness ==
  /\ sent # <<>> /\ call = "processPdfFile"
  /\ Len(FieldsAtHand) = 2
  /\ FieldsAtHand[1].name # FieldsAtHand[2].name
  /\ FieldsAtHand[1].areas = <<>>
  /\ SentDocument.fields[1].name = FieldsAtHand[1].name
  /\ SentDocument.fields[2].name = FieldsAtHand[2].name

(***************************************************************************)
(* Claims about the descriptors' types and roles                           *)
(***************************************************************************)
\* the FieldType enumeration
FieldTypes ==
  {STR_text, STR_signature, STR_initials, STR_date, STR_checkbox, STR_image,
   STR_file, STR_phone, STR_number, STR_select, STR_radio, STR_stamp}

\* C17: the type of every descriptor an extraction run produces is a
\* member of the FieldType enumeration or exactly the explicit type
\* attribute of its tag; without an explicit type attribute it is a member
\* of the enumeration.
C17_TypeEnumeratedOrExplicit ==
  call # "none" =>
    \A i \in 1..Len(fields) :
      LET t == Explicit(fields[i].originalTag, KEY_type) IN
        /\ fields[i].type \in FieldTypes
             \/ (t # <<>> /\ fields[i].type = t[1])
        /\ t = <<>> => fields[i].type \in FieldTypes

\* C17 witness: a tag with type=custom gave a descriptor of type custom,
\* which the enumeration does not hold.
C17_Witness ==
  /\ call # "none"
  /\ \E i \in 1..Len(fields) :
       /\ Explicit(fields[i].originalTag, KEY_type) = <<STR_custom>>
       /\ fields[i].type = STR_custom
       /\ STR_custom \notin FieldTypes

\* C17 witness of the inferred side: a tag whose type attribute is empty
\* gave a descriptor of the inferred type signature.
C17_InferredWitness ==
  /\ call # "none"
  /\ \E i \in 1..Len(fields) :
       /\ Explicit(fields[i].originalTag, KEY_type) = <<>>
       /\ fields[i].originalTag
            = tagText(<<"c","l","i","e","n","t","_","s","i","g","n">>,
                      <<KEY_type \o <<"=">>>>)
       /\ fields[i].type = STR_signature

\* C17 for the inference alone (checked under SpecInfer): whatever the
\* name, inferFieldType returns a member of the enumeration.
C17_InferredTypeEnumerated ==
  inferredType # <<>> => inferredType[1] \in FieldTypes

\* the prefixes the README lists for each role
ProviderPrefixes ==
  {<<"p","r","o","v","i","d","e","r","_">>, <<"v","e","n","d","o","r","_">>,
   <<"s","e","l","l","e","r","_">>}
ClientPrefixes ==
  {<<"c","l","i","e","n","t","_">>, <<"c","u","s","t","o","m","e","r","_">>,
   <<"b","u","y","e","r","_">>, <<"t","e","n","a","n","t","_">>}

\* s begins with p
BeginsWith(s, p) == Len(p) <= Len(s) /\ SubSeq(s, 1, Len(p)) = p

BoxAt(i) == ResultFields[i + 1].areas[1]

\* the indices of the result
Indices == 0..(Len(ResultFields) - 1)

\* C19: the left-column field at index 2k and the right-column field at
\* index 2k+1 have equal y whenever they are on the same page, whatever
\* their heights.
C19_RowSharesY ==
  Succeeded =>
    \A i \in Indices :
      (i % 2 = 0 /\ i + 1 \in Indices /\ BoxAt(i).page = BoxAt(i + 1).page)
        => BoxAt(i).y = BoxAt(i + 1).y

\* C19 (what the code does instead): the right-column field at index 2k+1
\* is placed one row below the left-column field at index 2k, at
\* y(2k) + h(2k+1) + 0.015, unless it overflows the page; the fields that
\* share a y are the right-column field at 2k+1 and the left-column field
\* at 2k+2.
C19_RightFieldOneRowDown ==
  Succeeded =>
    \A i \in Indices :
      (i % 2 = 1 /\ ~ResetAt(ResultFields, i + 1))
        => BoxAt(i).y = plus[BoxAt(i - 1).y,
                             plus[BoxAt(i).h, double(verticalGap)]]

\* C19 witness of the divergence: a result whose first two fields are on
\* page 1, the left one at 0.05 and the right one at 0.05 + 0.12 + 0.015.
C19_StaggeredWitness ==
  /\ Succeeded
  /\ Len(ResultFields) >= 2
  /\ BoxAt(0).page = 1 /\ BoxAt(1).page = 1
  /\ BoxAt(0).y = double(topMargin)
  /\ BoxAt(1).h = double(imageHeight)
  /\ BoxAt(1).y = plus[double(topMargin),
                       plus[double(imageHeight), double(verticalGap)]]

\* C20: the row advance follows the placement of a right-column field: the
\* left-column field at index 2k+2 has y = y(2k+1) + h(2k+1) + 0.015 when
\* the page does not overflow at index 2k+2, and a left-column field never
\* moves the cursor.
C20_AdvanceAfterRightField ==
  Succeeded =>
    \A i \in Indices :
      (i % 2 = 1 /\ i + 1 \in Indices /\ ~ResetAt(ResultFields, i + 2))
        => BoxAt(i + 1).y = plus[BoxAt(i).y,
                                 plus[BoxAt(i).h, double(verticalGap)]]

\* C20 (the part that holds): a left-column field that does not overflow
\* the page is placed at the cursor as the field before it left it, at
\* the y of the right-column field at index 2k+1.
C20_LeftFieldKeepsCursor ==
  Succeeded =>
    \A i \in Indices :
      (i % 2 = 1 /\ i + 1 \in Indices /\ ~ResetAt(ResultFields, i + 2))
        => BoxAt(i + 1).y = BoxAt(i).y

\* C20 witness of the divergence: three fields on page 1, the third at the
\* y of the second and not a row below it.
C20_SameRowWitness ==
  /\ Succeeded
  /\ Len(ResultFields) = 3
  /\ BoxAt(2).page = 1
  /\ BoxAt(2).y = BoxAt(1).y
  /\ BoxAt(2).y # plus[BoxAt(1).y, plus[BoxAt(1).h, double(verticalGap)]]

\* C21: the field at index i, in discovery order, has x = 0.10 when i is
\* even and x = 0.55 when i is odd, whatever its type, its width and the
\* page it is placed on.
C21_ColumnAlternation ==
  Succeeded =>
    \A i \in Indices :
      BoxAt(i).x = IF i % 2 = 0 THEN double(leftColumnX)
                   ELSE double(rightColumnX)

\* C21 witness: a checkbox, 0.03 wide, at an odd index was moved to the top
\* of a new page and stands in the right column there.
C21_Witness ==
  /\ Succeeded /\ file[1].type = MIME_DOCX
  /\ \E i \in Indices :
       /\ i % 2 = 1
       /\ BoxAt(i).page = 2
       /\ BoxAt(i).y = double(topMargin)
       /\ BoxAt(i).w = double(checkboxSize)
       /\ BoxAt(i).x = double(rightColumnX)

\* the (w, h) the claim gives a type
SizeOfType(type) ==
  IF type \in {STR_signature, STR_initials}
    THEN <<double(fieldWidth), double(signatureHeight)>>
  ELSE IF type = STR_checkbox
    THEN <<double(checkboxSize), double(checkboxSize)>>
  ELSE IF type = STR_image
    THEN <<double(fieldWidth), double(imageHeight)>>
  ELSE <<double(fieldWidth), double(fieldHeight)>>

\* C22: the size of each box is that of the field's final type, declared
\* or inferred: signature and initials (0.35, 0.08), checkbox (0.03, 0.03),
\* image (0.35, 0.12), every other type value (0.35, 0.04).
C22_SizeByFinalType ==
  Succeeded =>
    \A i \in Indices :
      <<BoxAt(i).w, BoxAt(i).h>> = SizeOfType(ResultFields[i + 1].type)

\* C22 witness: a field whose name infers signature and whose tag declares
\* the type custom has the default size, next to a field of another size.
C22_Witness ==
  /\ Succeeded
  /\ \E i \in Indices :
       /\ inferFieldType(ResultFields[i + 1].name) = STR_signature
       /\ ResultFields[i + 1].type = STR_custom
       /\ BoxAt(i).w = double(fieldWidth)
       /\ BoxAt(i).h = double(fieldHeight)
  /\ \E i \in Indices : BoxAt(i).h = double(imageHeight)

\* C22 witness for initials: an initials field is 0.08 high.
C22_InitialsWitness ==
  /\ Succeeded
  /\ \E i \in Indices :
       /\ ResultFields[i + 1].type = STR_initials
       /\ BoxAt(i).h = double(signatureHeight)

\* C23: along the fields of a DOCX result, whose stored page is the
\* unclamped page counter, the counter starts at 1, never decreases and
\* grows by at most 1 from one field to the next; a field at which it grows
\* is at y = 0.05; between two page changes y never decreases from one
\* field to the next.
C23_PageCounterMonotone ==
  (Succeeded /\ file[1].type = MIME_DOCX) =>
    /\ Indices # {} => BoxAt(0).page = 1
    /\ \A i \in Indices \ {0} :
         /\ BoxAt(i).page \in {BoxAt(i - 1).page, BoxAt(i - 1).page + 1}
         /\ BoxAt(i).page > BoxAt(i - 1).page =>
              BoxAt(i).y = double(topMargin)
         /\ BoxAt(i).page = BoxAt(i - 1).page =>
              atMost(BoxAt(i - 1).y, BoxAt(i).y)

\* C23 witness: a DOCX result whose counter grew twice, with a row lower
\* than the one before it on the second page.
C23_Witness ==
  /\ Succeeded /\ file[1].type = MIME_DOCX
  /\ \E i \in Indices \ {0} :
       /\ BoxAt(i - 1).page = 1 /\ BoxAt(i).page = 2
       /\ BoxAt(i).y = double(topMargin)
  /\ \E i \in Indices \ {0} :
       /\ BoxAt(i - 1).page = 2 /\ BoxAt(i).page = 2
       /\ greater[BoxAt(i).y, BoxAt(i - 1).y]
  /\ \E i \in Indices \ {0} : BoxAt(i - 1).page = 2 /\ BoxAt(i).page = 3

\* a text with every tag occurrence whose name was seen before deleted;
\* the scan goes on behind each match, as the regular expression's does
RECURSIVE withoutRepeats(_, _)
withoutRepeats(text, seen) ==
  LET ms == tagMatches(text, 1) IN
    IF ms = <<>> THEN text
    ELSE
      LET m0   == ms[1].m0
          at   == Min({q \in 1..(Len(text) - Len(m0) + 1) :
                         SubSeq(text, q, q + Len(m0) - 1) = m0})
          name == tagNameOf(ms[1])
      IN SubSeq(text, 1, at - 1)
           \o (IF name \in seen THEN <<>> ELSE m0)
           \o withoutRepeats(SubSeq(text, at + Len(m0), Len(text)),
                             seen \cup {name})

\* the fields extractTagsFromPDF / extractTagsFromDOCX return for a text
\* under the page count of the call
LaidOut(text) ==
  IF call = "extractTagsFromPDF"
    THEN extractTagsFromPDF(text, numPages).fields
    ELSE extractTagsFromDOCX(text).fields

Descriptor(f) ==
  <<f.originalTag, f.name, f.displayName, f.type, f.role, f.required,
    f.readonly, f.defaultValue, f.placeholder>>
DescriptorsOf(fs) == [k \in 1..Len(fs) |-> Descriptor(fs[k])]

\* the area of a DOCX field as the PDF loop stores it for a page count
clamped(area, pageCount) ==
  [area EXCEPT !.page = IF @ < pageCount THEN @ ELSE pageCount]

\* the page counts a state fixes: that of the call when it was a PDF call,
\* any page count otherwise
PageCounts ==
  IF call = "extractTagsFromPDF" THEN {numPages} ELSE 1..MaxPages

\* the PDF fields are the DOCX fields with the page clamped
ClampedTwins(pdf, docx, pageCount) ==
  /\ Len(pdf) = Len(docx)
  /\ \A k \in 1..Len(docx) :
       pdf[k].areas = <<clamped(docx[k].areas[1], pageCount)>>

\* C25: for the same text extractTags, extractTagsFromPDF and
\* extractTagsFromDOCX return the same fields in the same order with the
\* same originalTag, name, displayName, type, role, required, readonly,
\* defaultValue and placeholder; the areas of the PDF and the DOCX result
\* are equal except that the PDF page is min(DOCX page, pageCount).
C25_ParsersAgree ==
  call # "none" =>
    \A plain \in {extractTags(docText)},
       docx \in {extractTagsFromDOCX(docText).fields} :
      /\ DescriptorsOf(plain) = DescriptorsOf(docx)
      /\ \A n \in PageCounts :
           \A pdf \in {extractTagsFromPDF(docText, n).fields} :
             /\ fields \in {plain, pdf, docx}
             /\ DescriptorsOf(plain) = DescriptorsOf(pdf)
             /\ ClampedTwins(pdf, docx, n)

\* C25 witness: a text with a padded tag, a repeated name and an inferred
\* signature was parsed into two fields.
C25_Witness ==
  /\ call = "extractTagsFromDOCX"
  /\ Len(Occurrences) = 3
  /\ Len(fields) = 2
  /\ Occurrences[1].m0 # <<"{", "{">> \o fields[1].name \o <<"}", "}">>
  /\ Occurrences[1].m0 = fields[1].originalTag
  /\ fields[2].type = STR_signature
  /\ Len(fields[1].role) > 0

\* C25, the areas on long documents: the PDF areas are the DOCX areas with
\* the page clamped to the page count.
C25_AreasAgreeUpToClamp ==
  Succeeded =>
    \A n \in (IF file[1].type = MIME_PDF THEN {numPages} ELSE 1..MaxPages) :
      \A pdf \in {extractTagsFromPDF(docText, n).fields},
         docx \in {extractTagsFromDOCX(docText).fields} :
        /\ ResultFields \in {pdf, docx}
        /\ ClampedTwins(pdf, docx, n)

\* C25 witness of the clamp: a DOCX field on page 3 whose PDF twin, in a
\* two-page PDF, is on page 2.
C25_ClampWitness ==
  /\ Succeeded /\ file[1].type = MIME_PDF /\ numPages = 2
  /\ \E docx \in {extractTagsFromDOCX(docText).fields} :
       \E k \in 1..Len(ResultFields) :
         /\ docx[k].areas[1].page = 3
         /\ ResultFields[k].areas[1].page = 2

\* the three answers of the request validation
NoFile == failure(400, "No file provided")
InvalidType ==
  failure(400, "Invalid file type. Please upload a PDF or DOCX file.")
TooLarge == failure(400, "File size must be less than 10MB")

\* C26: an upload whose declared format is neither PDF nor DOCX is answered
\* with success = false and status 400 whatever the text extractor would
\* find or throw, and the validation reports the first failing check in
\* the order missing file, invalid type, size over 10 MB (exactly 10 MB
\* passes).
C26_NeitherPdfNorDocxRejected ==
  call = "POST" =>
    /\ file = <<>> => response[1] = NoFile
    /\ (file # <<>> /\ file[1].type \notin {MIME_PDF, MIME_DOCX}) =>
         response[1] = InvalidType
    /\ (file # <<>> /\ file[1].type \in {MIME_PDF, MIME_DOCX}
          /\ file[1].size > maxFileSize) => response[1] = TooLarge
    /\ (file # <<>> /\ file[1].type \in {MIME_PDF, MIME_DOCX}
          /\ file[1].size <= maxFileSize) =>
         response[1] \notin {NoFile, InvalidType, TooLarge}

\* C26 (what the code does, which holds): the same with the declared types
\* the route admits, application/msword among them.
C26_ValidationOrder ==
  call = "POST" =>
    /\ file = <<>> => response[1] = NoFile
    /\ (file # <<>> /\ file[1].type \notin allowedTypes) =>
         response[1] = InvalidType
    /\ (file # <<>> /\ file[1].type \in allowedTypes
          /\ file[1].size > maxFileSize) => response[1] = TooLarge
    /\ (file # <<>> /\ file[1].type \in allowedTypes
          /\ file[1].size <= maxFileSize) =>
         response[1] \notin {NoFile, InvalidType, TooLarge}

\* C26 witness of the order: an image of more than 10 MB was answered with
\* the type failure although the extractor would have thrown.
C26_OrderWitness ==
  /\ call = "POST" /\ file # <<>>
  /\ file[1].type = MIME_PNG /\ file[1].size > maxFileSize
  /\ fault # <<>>
  /\ response[1] = InvalidType

\* C26 witness of the size limit: a PDF of exactly 10 MB was processed.
C26_ExactLimitWitness ==
  /\ call = "POST" /\ file # <<>>
  /\ file[1].type = MIME_PDF /\ file[1].size = maxFileSize
  /\ response[1].success

\* C26: the legacy Word upload that reached the DOCX extractor and was
\* answered as a success.
C26_MswordProcessed ==
  /\ call = "POST" /\ file # <<>>
  /\ file[1].type = MIME_DOC
  /\ response[1].success /\ response[1].fileType = <<"docx">>

(***************************************************************************)
(* Claims about the signing page (checked under SpecSign)                  *)
(***************************************************************************)
\* the messages delivered so far that announce the completion
CompletionMessages ==
  {k \in 1..Len(signContent.received) :
     signContent.received[k].type = "docuseal:completed"}

\* C27: isCompleted is true only after a 'docuseal:completed' message sent
\* by the embedded DocuSeal frame; such a message from any other source
\* leaves it false.
C27_CompletedOnlyByDocuSealFrame ==
  signContent.isCompleted =>
    \E k \in CompletionMessages :
      signContent.received[k].source = DOCUSEAL_FRAME

\* C27 (what the code does, which holds): isCompleted is true exactly when
\* a message of type 'docuseal:completed' was delivered, whoever sent it,
\* and then the loading overlay is cleared.
C27_CompletedByMessageType ==
  /\ signContent.isCompleted <=> CompletionMessages # {}
  /\ signContent.isCompleted => ~signContent.isLoading

\* C27: once isCompleted is true it never becomes false again.
C27_CompletedStays ==
  [][signContent.isCompleted => signContent'.isCompleted]_vars

\* C27: the page shows the completion although the DocuSeal frame sent
\* nothing: every message came from another window.
C27_ForgedCompletion ==
  /\ signContent.isCompleted
  /\ ~signContent.isLoading
  /\ signContent.received # <<>>
  /\ \A k \in 1..Len(signContent.received) :
       signContent.received[k].source = OTHER_WINDOW

(***************************************************************************)
(* Claims about the submissions list (checked under SpecList)              *)
(***************************************************************************)
\* the button of a link reads 'Copied': copiedStates[copyKey] is truthy
Copied(key) ==
  /\ key \in DOMAIN submissionsPage.copiedStates
  /\ submissionsPage.copiedStates[key]

\* every click was on another link
DifferentLinks ==
  \A i, j \in 1..Len(submissionsPage.clicks) :
    submissionsPage.clicks[i] = submissionsPage.clicks[j] => i = j

\* the links whose copy was made and whose reset callback has not run
AwaitingReset ==
  {submissionsPage.timers[k].key : k \in 1..Len(submissionsPage.timers)}

\* nothing is pending: no clipboard write, no timer
Quiet == submissionsPage.writes = {} /\ submissionsPage.timers = <<>>

\* C28: with clicks on different links, a link reads 'Copied' from its copy
\* until its own reset callback has run, and when no callback is pending
\* no link reads 'Copied'.
C28_CopiedUntilOwnReset ==
  DifferentLinks =>
    /\ \A key \in AwaitingReset : Copied(key)
    /\ Quiet => \A key \in CopyKeys : ~Copied(key)

\* C28 (what holds): the same when a single link was clicked.
C28_SingleCopy ==
  Len(submissionsPage.clicks) <= 1 =>
    /\ \A key \in AwaitingReset : Copied(key)
    /\ Quiet => \A key \in CopyKeys : ~Copied(key)

\* C28 witness of the single copy: the link reads 'Copied' while its timer
\* is pending.
C28_SingleCopyWitness ==
  /\ Len(submissionsPage.clicks) = 1
  /\ \E key \in AwaitingReset : Copied(key)

\* C28: a link lost its 'Copied' mark to the reset callback of another
\* link while its own callback is still pending.
C28_LostMark ==
  /\ DifferentLinks
  /\ \E key \in AwaitingReset : ~Copied(key)

\* C28: every callback has run and a link still reads 'Copied'.
C28_StuckMark ==
  /\ DifferentLinks /\ Quiet
  /\ \E key \in CopyKeys : Copied(key)

(***************************************************************************)
(* Claims about the share-links page (checked under SpecShare)             *)
(***************************************************************************)
\* the links on display belong to the submission created last
ShowsLatestSubmission ==
  \A k \in 1..Len(shareLinks.generatedLinks) :
    shareLinks.generatedLinks[k].submission = shareLinks.submissions

\* C29: once resetForm or a template change has cleared generatedLinks the
\* list is empty until the next successful generateLinks, pending reset
\* callbacks of earlier copies included, and links of a previous
\* submission are never shown again.
C29_ClearedStaysEmpty ==
  /\ shareLinks.cleared => shareLinks.generatedLinks = <<>>
  /\ ShowsLatestSubmission

\* C29 (what holds): the same as long as no link was copied.
C29_ClearedStaysEmptyWithoutCopies ==
  shareLinks.clicks = 0 =>
    /\ shareLinks.cleared => shareLinks.generatedLinks = <<>>
    /\ ShowsLatestSubmission

\* C29 witness without copies: the form was reset after a submission and
\* shows no link.
C29_ResetWitness ==
  /\ shareLinks.clicks = 0
  /\ shareLinks.cleared /\ shareLinks.submissions = 1
  /\ shareLinks.selectedTemplateId = ""
  /\ shareLinks.generatedLinks = <<>>

\* C29: the form was reset, no submission was created since, every
\* callback has run, and the page shows the links of the old submission.
C29_OldLinksShownAgain ==
  /\ shareLinks.cleared
  /\ shareLinks.selectedTemplateId = ""
  /\ shareLinks.submissionId = <<>>
  /\ shareLinks.timers = <<>> /\ shareLinks.writes = {}
  /\ shareLinks.generatedLinks # <<>>

\* C29: a second submission was created and the page shows the links of
\* the first one.
C29_PreviousSubmissionShown ==
  /\ shareLinks.submissions = 2 /\ ~shareLinks.cleared
  /\ shareLinks.submissionId = <<2>>
  /\ shareLinks.generatedLinks # <<>>
  /\ \A k \in 1..Len(shareLinks.generatedLinks) :
       shareLinks.generatedLinks[k].submission = 1

(***************************************************************************)
(* Claims about the template store (checked under SpecStore)               *)
(***************************************************************************)
\* selectedFieldId is null or the id of a field in fields
SelectionInFields ==
  \/ templateStore.selectedFieldId = <<>>
  \/ templateStore.selectedFieldId[1] \in StoredIds

\* C30: after any sequence of setFields, addField, updateField,
\* deleteField, updateFieldPosition, addFieldArea, removeFieldArea,
\* selectField (with null or the id of a stored field) and reset,
\* selectedFieldId is null or the id of a field in fields.
C30_SelectionInFields == SelectionInFields

\* C30 (what holds): every action other than setFields and updateField
\* keeps the selection on a stored field.
C30_SelectionKeptByOtherActions ==
  [][(/\ SelectionInFields
      /\ \/ AddField
         \/ DeleteField
         \/ SelectField
         \/ UpdateFieldPosition
         \/ AddFieldArea
         \/ RemoveFieldArea
         \/ SetCurrentPage
         \/ Reset) => SelectionInFields']_vars

\* C30, deleteField: deleteField(id) sets selectedFieldId to null exactly
\* when it equalled id, removes the fields of that id and leaves every
\* other field and every other variable of the store as it was.
C30_DeleteFieldEffect ==
  \A id \in FieldIds :
    \A next \in {deleteField(templateStore, id)} :
      /\ next.selectedFieldId =
           IF templateStore.selectedFieldId = <<id>> THEN <<>>
           ELSE templateStore.selectedFieldId
      /\ next.fields =
           SelectSeq(templateStore.fields, LAMBDA field : field.id # id)
      /\ \A key \in DOMAIN templateStore \ {"fields", "selectedFieldId"} :
           next[key] = templateStore[key]

\* C30 witness of deleteField: the selected field is one of two stored
\* fields, on page 2 of the document; deleting it clears the selection
\* and deleting the other keeps it.
C30_DeleteWitness ==
  /\ Len(templateStore.fields) = 2
  /\ templateStore.currentPage = 2
  /\ templateStore.selectedFieldId = <<"f1">>
  /\ StoredIds = {"f1", "f2"}
  /\ deleteField(templateStore, "f1").selectedFieldId = <<>>
  /\ deleteField(templateStore, "f2").selectedFieldId = <<"f1">>

\* C30: the selection names a field that is not in the store.
C30_DanglingSelection ==
  /\ templateStore.selectedFieldId # <<>>
  /\ templateStore.selectedFieldId[1] \notin StoredIds

====
